---------------------------- MODULE Spec2Model ----------------------------
(***************************************************************************)
(* The tiered memory store of the integrated AI system: the React hook     *)
(* useMemorySystem (src/unnamed/part_003).                                  *)
(*                                                                         *)
(* The hook keeps one state object, memorySystem, and changes it only by   *)
(* functional updates setMemorySystem(prev => ...), which React applies    *)
(* one after the other, each to the result of the one before.  The model   *)
(* applies each update in the step that enqueues it.  What the callbacks   *)
(* retrieveMemories and getMemoryStats read is not that state but the      *)
(* snapshot of the last render their closure captured: the variable        *)
(* rendered, which the step Render brings up to date.                      *)
(*                                                                         *)
(* Numbers.  Every real of the code (importance, scores, thresholds) is a  *)
(* fixed-point integer in units of 1/10000; a product is rounded down      *)
(* after each multiplication.  Time is counted in whole days.  The inputs  *)
(* of the model are chosen so that no comparison of the code falls within  *)
(* the rounding of either arithmetic.                                      *)
(*                                                                         *)
(* Contents.  MemoryItem.content is `any`; the model's contents are JSON   *)
(* numbers (a natural number n, serialized as its decimal digits) and the  *)
(* strings of a small vocabulary (a negative number -k, the k-th entry of  *)
(* NamedTexts, serialized between double quotes).  The last three texts    *)
(* are of ten, nine and eleven words, nine or ten of them shared.          *)
(***************************************************************************)
EXTENDS Integers, Sequences, FiniteSets, TLC

\* memorySystem   the state object of the hook (the result of every update
\*                enqueued so far)
\* rendered       the state the last render showed: what the closures of
\*                retrieveMemories and getMemoryStats read
\* pending        the number of updates enqueued since that render
\* now            the clock (new Date(), Date.now()), in days
\* activeTimers   the intervals set by the effect and not cleared
\* effect         the periodic-cleanup effect: whether the component is
\*                mounted, the interval its cleanup function clears, and
\*                the number of intervals set so far
\* calls          the number of calls made, and the id of the next item
\* lastOp         the last call made (see NoOp)
VARIABLES memorySystem, rendered, pending, now, activeTimers, effect, calls,
          lastOp

\* The other hooks of the component (IntegratedAISystem.tsx):
\* fileProcessing the state object of useFileProcessing: queue, processed
\*                and the number of files counted in categories
\* fileHook       the rest of useFileProcessing: the configured
\*                processingQueueSize, the queue its last render showed
\*                (what the closure of processNextFile reads),
\*                isProcessingRef, the calls of processNextFile that are
\*                waiting in an await, the number of calls made, the id of
\*                the next file, and the last call with what it returned
\* monitoring     usePerformanceMonitoring: the state isMonitoring, the
\*                value of it that the closures of startMonitoring and
\*                stopMonitoring hold (that of the last render),
\*                monitoringIntervalRef (0 for null), the intervals set and
\*                not cleared, the number of intervals set, whether the
\*                hook is mounted, the number of calls made and the last
\* system         the component: isInitialized, systemStatus, errorState,
\*                and the value of isMonitoring that the closures of the
\*                initialization effect hold
VARIABLES fileProcessing, fileHook, monitoring, system

memoryVars ==
  <<memorySystem, rendered, pending, now, activeTimers, effect, calls, lastOp>>

fileVars == <<fileProcessing, fileHook>>

nonMemoryVars == <<fileVars, monitoring, system>>

nonFileVars == <<memoryVars, monitoring, system>>

vars == <<memoryVars, fileVars, monitoring, system>>

----------------------------------------------------------------------------
(* Bounds of the model *)

\* The number of calls (store, retrieve, compress, timer, clock) in a run
MaxOps == 3

\* The number of calls of the file hook (addFileToQueue, processNextFile)
\* in a run
MaxFileCalls == 4

\* The number of calls of startMonitoring and stopMonitoring in a run
MaxMonitorCalls == 5

\* The number of runs of the initialization effect and of the control
\* handlers of the component in a run
MaxSystemCalls == 5

(* Program constants, reals in units of 1/10000 *)

ShortTermLimit == 100
compressionThreshold == 50
PromoteCount == 20
archiveRetentionDays == 30
ArchiveWorthyScore == 3000
ArchiveKeepImportance == 8000
DuplicateSimilarity == 9000
AccessBoostCap == 3000
AccessBoostStep == 500
DefaultLimit == 10
DefaultThreshold == 7000
DefaultQueueSize == 100

One == 100 * 100

Min(a, b) == IF a < b THEN a ELSE b
Max(a, b) == IF a > b THEN a ELSE b

keepInShortTerm == (compressionThreshold * 7) \div 10

----------------------------------------------------------------------------
(* Text: JSON.stringify, toLowerCase, split(/\s+/), includes *)

NamedTexts ==
  << <<"a", "l", "p", "h", "a">>,
     <<"A", "L", "P", "H", "A">>,
     <<"a", "l", "p", "h", "a", " ", "b", "e", "t", "a">>,
     <<"a", " ", "b", " ", "c", " ", "d", " ", "e", " ", "f", " ", "g", " ",
       "h", " ", "i", " ", "j">>,
     <<"a", " ", "b", " ", "c", " ", "d", " ", "e", " ", "f", " ", "g", " ",
       "h", " ", "j">>,
     <<"a", " ", "b", " ", "c", " ", "d", " ", "e", " ", "f", " ", "g", " ",
       "h", " ", "i", " ", "k", " ", "j">> >>

DigitChars == <<"0", "1", "2", "3", "4", "5", "6", "7", "8", "9">>

RECURSIVE Digits(_)
Digits(n) ==
  IF n < 10 THEN <<DigitChars[n + 1]>>
  ELSE Append(Digits(n \div 10), DigitChars[(n % 10) + 1])

Stringify(content) ==
  IF content >= 0 THEN Digits(content)
  ELSE <<"\"">> \o NamedTexts[-content] \o <<"\"">>

LowerChar(c) ==
  CASE c = "A" -> "a"
    [] c = "L" -> "l"
    [] c = "P" -> "p"
    [] c = "H" -> "h"
    [] c = "B" -> "b"
    [] c = "E" -> "e"
    [] c = "T" -> "t"
    [] OTHER -> c

ToLowerCase(s) == [i \in 1..Len(s) |-> LowerChar(s[i])]

RECURSIVE SplitFrom(_, _, _, _)
SplitFrom(s, i, cur, acc) ==
  IF i > Len(s) THEN Append(acc, cur)
  ELSE IF s[i] = " "
       THEN IF i > 1 /\ s[i - 1] = " "
            THEN SplitFrom(s, i + 1, cur, acc)
            ELSE SplitFrom(s, i + 1, <<>>, Append(acc, cur))
       ELSE SplitFrom(s, i + 1, Append(cur, s[i]), acc)

SplitWhitespace(s) == SplitFrom(s, 1, <<>>, <<>>)

Includes(s, q) ==
  \E off \in 0..(Len(s) - Len(q)) :
    \A k \in 1..Len(q) : s[off + k] = q[k]

Range(s) == {s[i] : i \in 1..Len(s)}

\* The contents of the model, and for each its lower-case serialization and
\* the words of it, tabulated once
MaxContent == ShortTermLimit + MaxOps
Contents == (0 - Len(NamedTexts))..MaxContent \ {0}

contentStrTable == [c \in Contents |-> ToLowerCase(Stringify(c))]
contentWordsTable ==
  [c \in Contents |-> Range(SplitWhitespace(contentStrTable[c]))]

----------------------------------------------------------------------------
(* calculateSimilarity: 1.0 for equal serializations, else the Jaccard     *)
(* ratio of the two token sets                                              *)

calculateSimilarity(content1, content2) ==
  LET str1 == contentStrTable[content1]
      str2 == contentStrTable[content2]
      words1 == contentWordsTable[content1]
      words2 == contentWordsTable[content2]
  IN IF str1 = str2 THEN One
     ELSE (Cardinality(words1 \cap words2) * One)
            \div Cardinality(words1 \cup words2)

----------------------------------------------------------------------------
(* calculateRetentionScore *)

ExpTable ==
  <<10000, 9048, 8187, 7408, 6703, 6065, 5488, 4965, 4493, 4065, 3678,
    3328, 3011, 2725, 2465, 2231, 2018, 1826, 1652, 1495, 1353, 1224, 1108,
    1002, 907, 820, 742, 672, 608, 550, 497, 450, 407, 368, 333, 301, 273,
    247, 223, 202, 183, 165, 149, 135, 122, 111, 100, 90, 82, 74, 67, 60,
    55, 49, 45, 40, 36, 33, 30, 27, 24, 22, 20, 18, 16, 15, 13, 12, 11, 10,
    9, 8, 7, 6, 6, 5, 5, 4, 4, 3, 3, 3, 2, 2, 2, 2, 1, 1, 1, 1, 1, 1, 1>>

\* Math.exp(-ageInDays * 0.1), rounded down
ExpDecay(ageInDays) ==
  IF ageInDays + 1 <= Len(ExpTable) THEN ExpTable[ageInDays + 1] ELSE 0

importantTags == {"critical", "important", "user-preference", "system-config"}

calculateRetentionScore(memory, currentTime) ==
  LET ageInDays == currentTime - memory.timestamp
      base == memory.importance
                + Min(AccessBoostCap, memory.accessCount * AccessBoostStep)
      decayed == (base * ExpDecay(ageInDays)) \div One
      hasImportantTags == \E tag \in Range(memory.tags) : tag \in importantTags
      score == IF hasImportantTags THEN (decayed * 3) \div 2 ELSE decayed
  IN Min(One, score)

----------------------------------------------------------------------------
(* Array.prototype.sort with (a, b) => b.retentionScore - a.retentionScore: *)
(* descending, and stable (ECMAScript 2019)                                 *)

\* The sorted array: the element at position k is the one that k - 1 others
\* precede, those with a greater key and those with an equal key before it
SortDescending(src, keys) ==
  LET n == Len(src)
      rank == [i \in 1..n |->
                 1 + Cardinality({j \in 1..n :
                       \/ keys[j] > keys[i]
                       \/ keys[j] = keys[i] /\ j < i})]
      position == {<<rank[i], i>> : i \in 1..n}
  IN [k \in 1..n |-> src[(CHOOSE p \in position : p[1] = k)[2]]]

\* Variant: a sort that is not stable, elements of equal key in reverse order
SortByRetentionUnstable(src) ==
  LET n == Len(src)
      rank == [i \in 1..n |->
                 1 + Cardinality({j \in 1..n :
                       \/ src[j].retentionScore > src[i].retentionScore
                       \/ /\ src[j].retentionScore = src[i].retentionScore
                          /\ j > i})]
      position == {<<rank[i], i>> : i \in 1..n}
  IN [k \in 1..n |-> src[(CHOOSE p \in position : p[1] = k)[2]]]

\* Variant: the comparator a.retentionScore - b.retentionScore
SortByRetentionAscending(src) ==
  SortDescending(src, [i \in 1..Len(src) |-> 0 - src[i].retentionScore])

SortByRetention(src) ==
  SortDescending(src, [i \in 1..Len(src) |-> src[i].retentionScore])

WithRetentionScoresResettingAccess(src, currentTime) ==
  [i \in 1..Len(src) |->
     [src[i] EXCEPT
        !.retentionScore = calculateRetentionScore(src[i], currentTime),
        !.accessCount = 0]]

WithRetentionScores(src, currentTime) ==
  [i \in 1..Len(src) |->
     [src[i] EXCEPT
        !.retentionScore = calculateRetentionScore(src[i], currentTime)]]

----------------------------------------------------------------------------
(* compressMemoriesInternal(state), with now = new Date() *)

\* scoredMemories: the short-term records with their scores, sorted
scoredMemoriesAt(shortTerm, currentTime) ==
  SortByRetention(WithRetentionScores(shortTerm, currentTime))

\* scoredMemories.slice(0, keepInShortTerm)
keptInShortTerm(scoredMemories) ==
  SubSeq(scoredMemories, 1, Min(Len(scoredMemories), keepInShortTerm))

\* Variant: scoredMemories.slice(keepInShortTerm - 1, keepInShortTerm + 20)
moveToLongTermFromLastKept(scoredMemories) ==
  SubSeq(scoredMemories, keepInShortTerm,
         Min(Len(scoredMemories), keepInShortTerm + PromoteCount))

\* scoredMemories.slice(keepInShortTerm, keepInShortTerm + 20)
moveToLongTerm(scoredMemories) ==
  SubSeq(scoredMemories, keepInShortTerm + 1,
         Min(Len(scoredMemories), keepInShortTerm + PromoteCount))

\* scoredMemories.slice(keepInShortTerm + 20)
toArchive(scoredMemories) ==
  SubSeq(scoredMemories, keepInShortTerm + PromoteCount + 1,
         Len(scoredMemories))

\* Variant: m.retentionScore >= 0.3
IsArchiveWorthyInclusive(m) == m.retentionScore >= ArchiveWorthyScore

IsArchiveWorthy(m) == m.retentionScore > ArchiveWorthyScore

archiveWorthy(scoredMemories) ==
  SelectSeq(toArchive(scoredMemories), IsArchiveWorthy)

\* Variant: totalKept counts toArchive.length
compressionRatioCountingCandidates(scoredMemories) ==
  [num |-> Len(keptInShortTerm(scoredMemories))
             + Len(moveToLongTerm(scoredMemories))
             + Len(toArchive(scoredMemories)),
   den |-> Len(scoredMemories)]

\* totalKept / totalOriginal, as the fraction num / den
compressionRatioOf(scoredMemories) ==
  [num |-> Len(keptInShortTerm(scoredMemories))
             + Len(moveToLongTerm(scoredMemories))
             + Len(archiveWorthy(scoredMemories)),
   den |-> Len(scoredMemories)]

\* Variant: state.archive is not assigned
compressShortTermWithoutArchive(state, currentTime) ==
  LET scoredMemories == scoredMemoriesAt(state.shortTerm, currentTime)
  IN [state EXCEPT
        !.shortTerm = keptInShortTerm(scoredMemories),
        !.longTerm = state.longTerm \o moveToLongTerm(scoredMemories),
        !.compressionRatio = compressionRatioOf(scoredMemories)]

\* Variant: the records kept are compressionThreshold * state.compressionRatio
compressShortTermByStateRatio(state, currentTime) ==
  LET scoredMemories == scoredMemoriesAt(state.shortTerm, currentTime)
      keep == (compressionThreshold * state.compressionRatio.num)
                \div state.compressionRatio.den
      kept == SubSeq(scoredMemories, 1, Min(Len(scoredMemories), keep))
      rest == SubSeq(scoredMemories, Len(kept) + 1, Len(scoredMemories))
  IN [state EXCEPT
        !.shortTerm = kept,
        !.longTerm = state.longTerm
                       \o SubSeq(rest, 1, Min(Len(rest), PromoteCount)),
        !.archive = state.archive
                      \o SelectSeq(SubSeq(rest, Min(Len(rest), PromoteCount) + 1,
                                          Len(rest)), IsArchiveWorthy),
        !.compressionRatio = compressionRatioOf(scoredMemories)]

\* The body of if (state.shortTerm.length > compressionThreshold)
compressShortTerm(state, currentTime) ==
  LET scoredMemories == scoredMemoriesAt(state.shortTerm, currentTime)
  IN [state EXCEPT
        !.shortTerm = keptInShortTerm(scoredMemories),
        !.longTerm = state.longTerm \o moveToLongTerm(scoredMemories),
        !.archive = state.archive \o archiveWorthy(scoredMemories),
        !.compressionRatio = compressionRatioOf(scoredMemories)]

\* Variant: the filter without || memory.importance > 0.8
SurvivesSweepByAgeOnly(memory, cutoffDate) == memory.timestamp > cutoffDate

SurvivesSweep(memory, cutoffDate) ==
  memory.timestamp > cutoffDate \/ memory.importance > ArchiveKeepImportance

\* state.archive.filter(...), with cutoffDate = now - 30 days
sweepArchive(archive, currentTime) ==
  LET cutoffDate == currentTime - archiveRetentionDays
  IN SelectSeq(archive, LAMBDA memory : SurvivesSweep(memory, cutoffDate))

\* Variant: the sweep and the increment inside the if
compressOnlyWhenOver(state, currentTime) ==
  IF Len(state.shortTerm) > compressionThreshold
  THEN LET compressed == compressShortTerm(state, currentTime)
       IN [compressed EXCEPT
             !.archive = sweepArchive(compressed.archive, currentTime),
             !.cyclicCleanup = compressed.cyclicCleanup + 1]
  ELSE state

\* Variant: the increment inside the if, the sweep outside
compressCountingOnlyWhenOver(state, currentTime) ==
  LET over == Len(state.shortTerm) > compressionThreshold
      compressed == IF over THEN compressShortTerm(state, currentTime)
                    ELSE state
  IN [compressed EXCEPT
        !.archive = sweepArchive(compressed.archive, currentTime),
        !.cyclicCleanup = compressed.cyclicCleanup + (IF over THEN 1 ELSE 0)]

compressMemoriesInternal(state, currentTime) ==
  LET compressed == IF Len(state.shortTerm) > compressionThreshold
                    THEN compressShortTerm(state, currentTime)
                    ELSE state
  IN [compressed EXCEPT
        !.archive = sweepArchive(compressed.archive, currentTime),
        !.cyclicCleanup = compressed.cyclicCleanup + 1]

----------------------------------------------------------------------------
(* storeMemory(item): the update it enqueues *)

\* Variant: only the newest short-term record is compared
isDuplicateOfNewest(prev, item) ==
  /\ prev.shortTerm # <<>>
  /\ calculateSimilarity(prev.shortTerm[Len(prev.shortTerm)].content,
                         item.content) > DuplicateSimilarity

\* Variant: calculateSimilarity(...) >= 0.9
isDuplicateInclusive(prev, item) ==
  \E i \in 1..Len(prev.shortTerm) :
    calculateSimilarity(prev.shortTerm[i].content, item.content)
      >= DuplicateSimilarity

\* Variant: the records of longTerm and archive are compared too
isDuplicateInAnyTier(prev, item) ==
  \E m \in Range(prev.shortTerm \o prev.longTerm \o prev.archive) :
    calculateSimilarity(m.content, item.content) > DuplicateSimilarity

isDuplicate(prev, item) ==
  \E i \in 1..Len(prev.shortTerm) :
    calculateSimilarity(prev.shortTerm[i].content, item.content)
      > DuplicateSimilarity

\* Variant: if (newState.shortTerm.length > 101)
isFullAboveOneMore(shortTerm) == Len(shortTerm) > ShortTermLimit + 1

\* if (newState.shortTerm.length > 100)
isFull(shortTerm) == Len(shortTerm) > ShortTermLimit

storeUpdate(prev, item, currentTime) ==
  IF isDuplicate(prev, item) THEN prev
  ELSE LET newState == [prev EXCEPT !.shortTerm = Append(prev.shortTerm, item)]
       IN IF isFull(newState.shortTerm)
          THEN compressMemoriesInternal(newState, currentTime)
          ELSE newState

----------------------------------------------------------------------------
(* The items a caller stores *)

NoScore == 0 - 1
NoDate == 0 - 1

MemoryItem(id, content, timestamp, importance, tags) ==
  [id |-> id, content |-> content, timestamp |-> timestamp,
   accessCount |-> 0, importance |-> importance, tags |-> tags,
   retentionScore |-> NoScore, lastAccessed |-> NoDate]

----------------------------------------------------------------------------
(* calculateRelevance(query, memory), with Date.now() = currentTime *)

TagChars(tag) ==
  CASE tag = "critical" -> <<"c", "r", "i", "t", "i", "c", "a", "l">>
    [] tag = "alpha" -> <<"a", "l", "p", "h", "a">>
    [] OTHER -> <<"t", "e", "s", "t">>

RECURSIVE JoinFrom(_, _, _)
JoinFrom(tags, i, acc) ==
  IF i > Len(tags) THEN acc
  ELSE JoinFrom(tags, i + 1,
         IF i = 1 THEN TagChars(tags[i])
         ELSE acc \o <<" ">> \o TagChars(tags[i]))

JoinTags(tags) == JoinFrom(tags, 1, <<>>)

\* Math.log(k), rounded down, for k = 1, 2, ...
LnTable ==
  <<0, 6931, 10986, 13862, 16094, 17917, 19459, 20794, 21972, 23025, 23978>>

\* The queries callers ask, and the tag lists records carry
Queries == { <<"a", "l", "p", "h", "a">>, <<"1", "7">> }
TagLists == { <<>>, <<"critical">> }

\* The text part of calculateRelevance: exact match, then word overlap
contentMatch(query, content) ==
  LET queryLower == ToLowerCase(query)
      contentStr == contentStrTable[content]
      exact == IF Includes(contentStr, queryLower) THEN 8000 ELSE 0
      queryWords == SplitWhitespace(queryLower)
      contentWords == contentWordsTable[content]
      overlap == Cardinality({i \in 1..Len(queryWords) :
                                queryWords[i] \in contentWords})
  IN exact + (overlap * 4000) \div Len(queryWords)

\* The tag part of calculateRelevance
tagMatch(query, tags) ==
  LET tagsStr == ToLowerCase(JoinTags(tags))
  IN IF Includes(tagsStr, ToLowerCase(query)) THEN 6000 ELSE 0

contentMatchTable ==
  [query \in Queries |-> [content \in Contents |->
                            contentMatch(query, content)]]
tagMatchTable ==
  [query \in Queries |-> [tags \in TagLists |-> tagMatch(query, tags)]]

calculateRelevanceFasterDecay(query, memory, currentTime) ==
  LET s0 == contentMatchTable[query][memory.content]
              + tagMatchTable[query][memory.tags]
      s1 == (s0 * (One + memory.importance \div 5)) \div One
      s2 == (s1 * (One + LnTable[memory.accessCount + 1] \div 10)) \div One
      daysSinceCreation == currentTime - memory.timestamp
      s3 == (s2 * Max(5000, One - daysSinceCreation * 200)) \div One
  IN Min(One, s3)

calculateRelevance(query, memory, currentTime) ==
  LET s0 == contentMatchTable[query][memory.content]
              + tagMatchTable[query][memory.tags]
      s1 == (s0 * (One + memory.importance \div 5)) \div One
      s2 == (s1 * (One + LnTable[memory.accessCount + 1] \div 10)) \div One
      daysSinceCreation == currentTime - memory.timestamp
      s3 == (s2 * Max(5000, One - daysSinceCreation * 100)) \div One
  IN Min(One, s3)

----------------------------------------------------------------------------
(* retrieveMemories(query, options): what it returns and the update it      *)
(* enqueues.  It reads the rendered snapshot, not the queued state.         *)

SortKeyRelevanceOnly(e, sortBy) == e.relevanceScore

SortKey(e, sortBy) ==
  CASE sortBy = "recency" -> e.memory.timestamp
    [] sortBy = "importance" -> e.memory.importance
    [] OTHER -> e.relevanceScore

scoredMemoriesOfAllTiers(snapshot, query, threshold, includeArchived, currentTime) ==
  LET allMemories ==
        snapshot.shortTerm \o snapshot.longTerm \o snapshot.archive
      scored == [i \in 1..Len(allMemories) |->
                   [memory |-> allMemories[i],
                    relevanceScore |->
                      calculateRelevance(query, allMemories[i], currentTime)]]
  IN SelectSeq(scored, LAMBDA e : e.relevanceScore >= threshold)

scoredMemoriesOf(snapshot, query, threshold, includeArchived, currentTime) ==
  LET allMemories ==
        snapshot.shortTerm \o snapshot.longTerm
          \o (IF includeArchived THEN snapshot.archive ELSE <<>>)
      scored == [i \in 1..Len(allMemories) |->
                   [memory |-> allMemories[i],
                    relevanceScore |->
                      calculateRelevance(query, allMemories[i], currentTime)]]
  IN SelectSeq(scored, LAMBDA e : e.relevanceScore >= threshold)

retrieveResultOneMore(scored, sortBy, limit) ==
  LET sorted == SortDescending(scored, [i \in 1..Len(scored) |->
                                          SortKey(scored[i], sortBy)])
  IN SubSeq(sorted, 1, Min(limit + 1, Len(sorted)))

retrieveResult(scored, sortBy, limit) ==
  LET sorted == SortDescending(scored, [i \in 1..Len(scored) |->
                                          SortKey(scored[i], sortBy)])
  IN SubSeq(sorted, 1, Min(limit, Len(sorted)))

BumpAccessRaisingImportance(tier, retrievedIds) ==
  [i \in 1..Len(tier) |->
     IF tier[i].id \in retrievedIds
     THEN [tier[i] EXCEPT !.accessCount = @ + 1,
                          !.importance = Min(One, @ + 1000)]
     ELSE tier[i]]

BumpAccess(tier, retrievedIds) ==
  [i \in 1..Len(tier) |->
     IF tier[i].id \in retrievedIds
     THEN [tier[i] EXCEPT !.accessCount = @ + 1]
     ELSE tier[i]]

retrieveUpdateReturnedFirst(prev, retrievedIds) ==
  LET longTerm == BumpAccess(prev.longTerm, retrievedIds)
  IN [prev EXCEPT
        !.shortTerm = BumpAccess(prev.shortTerm, retrievedIds),
        !.longTerm =
          SelectSeq(longTerm, LAMBDA m : m.id \in retrievedIds)
            \o SelectSeq(longTerm, LAMBDA m : m.id \notin retrievedIds)]

\* Variant: the records of archive are mapped as well
retrieveUpdateOfAllTiers(prev, retrievedIds) ==
  [prev EXCEPT !.shortTerm = BumpAccess(prev.shortTerm, retrievedIds),
               !.longTerm = BumpAccess(prev.longTerm, retrievedIds),
               !.archive = BumpAccess(prev.archive, retrievedIds)]

retrieveUpdate(prev, retrievedIds) ==
  [prev EXCEPT !.shortTerm = BumpAccess(prev.shortTerm, retrievedIds),
               !.longTerm = BumpAccess(prev.longTerm, retrievedIds)]

----------------------------------------------------------------------------
(* getMemoryStats(): a read of the rendered snapshot *)

RECURSIVE SumImportance(_, _, _)
SumImportance(s, lo, hi) ==
  IF lo > hi THEN 0
  ELSE IF lo = hi THEN s[lo].importance
  ELSE LET mid == (lo + hi) \div 2
       IN SumImportance(s, lo, mid) + SumImportance(s, mid + 1, hi)

getMemoryStats(snapshot) ==
  LET totalMemories == Len(snapshot.shortTerm) + Len(snapshot.longTerm)
                         + Len(snapshot.archive)
  IN [totalMemories |-> totalMemories,
      shortTermCount |-> Len(snapshot.shortTerm),
      longTermCount |-> Len(snapshot.longTerm),
      archiveCount |-> Len(snapshot.archive),
      averageImportance |->
        IF totalMemories > 0
        THEN SumImportance(snapshot.shortTerm \o snapshot.longTerm
                             \o snapshot.archive, 1, totalMemories)
               \div totalMemories
        ELSE 0,
      compressionRatio |-> snapshot.compressionRatio,
      retentionScore |-> snapshot.retentionScore,
      cleanupCycles |-> snapshot.cyclicCleanup]

----------------------------------------------------------------------------
(* The environment: what callers store and ask for, and the states the     *)
(* store is in when the model starts                                       *)

\* content, importance and tags of a store call: a content never stored
\* before (the number fresh) with a low importance, the content of the first
\* record ever stored, the text "alpha" tagged critical, and the text "ALPHA"
StoreInputs(fresh) ==
  { [content |-> fresh, importance |-> 1000, tags |-> <<>>],
    [content |-> 1, importance |-> 5000, tags |-> <<>>],
    [content |-> 0 - 1, importance |-> 5000, tags |-> <<"critical">>],
    [content |-> 0 - 2, importance |-> 9000, tags |-> <<>>] }

\* The options of a retrieve call that passes none
DefaultOptions ==
  [limit |-> DefaultLimit, threshold |-> DefaultThreshold,
   includeArchived |-> FALSE, sortBy |-> "relevance"]

\* The options of a retrieve call: the defaults, as the caller in
\* IntegratedAISystem.tsx passes them, and calls that override them
RetrieveOptions ==
  { DefaultOptions,
    [limit |-> 1, threshold |-> DefaultThreshold,
     includeArchived |-> FALSE, sortBy |-> "importance"],
    [limit |-> DefaultLimit, threshold |-> DefaultThreshold,
     includeArchived |-> TRUE, sortBy |-> "recency"],
    [limit |-> 1, threshold |-> DefaultThreshold,
     includeArchived |-> TRUE, sortBy |-> "relevance"] }

\* The days that pass between two calls when the clock is advanced: the
\* archive retention window, and one day more
ClockSteps == {archiveRetentionDays, archiveRetentionDays + 1}

\* Importance and tags of the k-th record of a store built by earlier calls
PrefillProfile(k) ==
  LET r == k % 10
  IN IF r \in 1..6 THEN [importance |-> 9000, tags |-> <<>>]
     ELSE IF r \in 7..8 THEN [importance |-> 5000, tags |-> <<"critical">>]
     ELSE IF r = 9 THEN [importance |-> 3000, tags |-> <<>>]
     ELSE [importance |-> 1000, tags |-> <<>>]

\* The store after construction (n = 0), or after n stores of the contents
\* 1..n at day 0, each appended by storeMemory (n <= 100: no compression)
InitialStores ==
  { 0, compressionThreshold - 1, keepInShortTerm + PromoteCount - 1,
    ShortTermLimit - 1 }

Prefill(n) ==
  [i \in 1..n |-> MemoryItem(i, i, 0, PrefillProfile(i).importance,
                             PrefillProfile(i).tags)]

\* useFileProcessing.  A file of the queue: its id, its status, and whether
\* it has the name and type that generateFileMetadata reads (a file without
\* them makes the processing throw)
ProcessingFile(id, wellFormed) ==
  [id |-> id, status |-> "pending", wellFormed |-> wellFormed]

\* config.processingQueueSize || 100, with 0 for a size not configured
queueSizeOf(processingQueueSize) ==
  IF processingQueueSize = 0 THEN DefaultQueueSize ELSE processingQueueSize

\* No call of the file hook yet
NoFileOp(op) == [op |-> op, file |-> 0, returned |-> "none"]

\* The hook after construction with this processingQueueSize (n = 0), or
\* after n calls of addFileToQueue and a render
InitFileProcessing(processingQueueSize, n) ==
  /\ fileProcessing =
       [queue |-> [i \in 1..n |-> ProcessingFile(i, TRUE)],
        processed |-> <<>>,
        categoryCount |-> 0]
  /\ fileHook =
       [processingQueueSize |-> processingQueueSize,
        queue |-> fileProcessing.queue,
        isProcessingRef |-> FALSE,
        inFlight |-> {},
        calls |-> 0,
        nextId |-> n + 1,
        last |-> NoFileOp("init")]

\* usePerformanceMonitoring after the first render: not monitoring, no
\* interval
InitMonitoring ==
  monitoring = [isMonitoring |-> FALSE,
                closure |-> FALSE,
                monitoringIntervalRef |-> 0,
                timers |-> {},
                created |-> 0,
                mounted |-> TRUE,
                calls |-> 0,
                last |-> "init"]

\* IntegratedAISystem after its first render, before its effects run
InitSystem ==
  system = [isInitialized |-> FALSE,
            systemStatus |-> "initializing",
            errorState |-> "null",
            effectClosure |-> FALSE,
            calls |-> 0]

\* The other hooks as constructed, with the default configuration
InitNonMemory ==
  /\ InitFileProcessing(0, 0)
  /\ InitMonitoring
  /\ InitSystem

\* What the last call was: its kind, whether it was a store dropped as a
\* duplicate, the number of short-term records it left (store, after the
\* append) or found (compress), the item a store was given, and the ids a
\* retrieve returned
NoItem == MemoryItem(0, 1, 0, 0, <<>>)

NoOp(op) ==
  [op |-> op, duplicate |-> FALSE, n |-> 0, item |-> NoItem,
   result |-> <<>>]

\* The effect after the mount: it has set interval 1, which its cleanup
\* function clears
MountedEffect == [mounted |-> TRUE, cleanupInterval |-> 1, created |-> 1]

Init ==
  \E n \in InitialStores :
    /\ memorySystem =
         [shortTerm |-> Prefill(n),
          longTerm |-> <<>>,
          archive |-> <<>>,
          compressionRatio |-> [num |-> 7, den |-> 10],
          retentionScore |-> 8000,
          cyclicCleanup |-> 0]
    /\ rendered = memorySystem
    /\ pending = 0
    /\ now = 0
    /\ activeTimers = {1}
    /\ effect = MountedEffect
    /\ calls = [ops |-> 0, nextId |-> n + 1]
    /\ lastOp = NoOp("init")
    /\ InitNonMemory

----------------------------------------------------------------------------
(* Steps *)

StoreMemory ==
  /\ effect.mounted
  /\ calls.ops < MaxOps
  /\ \E input \in StoreInputs(calls.nextId) :
       LET item == MemoryItem(calls.nextId, input.content, now,
                              input.importance, input.tags)
           dup == isDuplicate(memorySystem, item)
       IN /\ memorySystem' = storeUpdate(memorySystem, item, now)
          /\ lastOp' = [NoOp("store") EXCEPT
                          !.duplicate = dup,
                          !.n = Len(memorySystem.shortTerm)
                                  + (IF dup THEN 0 ELSE 1),
                          !.item = item]
  /\ calls' = [calls EXCEPT !.ops = @ + 1, !.nextId = @ + 1]
  /\ pending' = pending + 1
  /\ UNCHANGED <<rendered, now, activeTimers, effect>>
  /\ UNCHANGED nonMemoryVars

CompressMemoriesFromSnapshot ==
  /\ effect.mounted
  /\ calls.ops < MaxOps
  /\ memorySystem' = compressMemoriesInternal(rendered, now)
  /\ lastOp' = [NoOp("compress") EXCEPT !.n = Len(memorySystem.shortTerm)]
  /\ calls' = [calls EXCEPT !.ops = @ + 1]
  /\ pending' = pending + 1
  /\ UNCHANGED <<rendered, now, activeTimers, effect>>
  /\ UNCHANGED nonMemoryVars

\* compressMemories(), called by a caller
CompressMemories ==
  /\ effect.mounted
  /\ calls.ops < MaxOps
  /\ memorySystem' = compressMemoriesInternal(memorySystem, now)
  /\ lastOp' = [NoOp("compress") EXCEPT !.n = Len(memorySystem.shortTerm)]
  /\ calls' = [calls EXCEPT !.ops = @ + 1]
  /\ pending' = pending + 1
  /\ UNCHANGED <<rendered, now, activeTimers, effect>>
  /\ UNCHANGED nonMemoryVars

TimerTickWhenIdle ==
  /\ calls.ops < MaxOps
  /\ pending = 0
  /\ \E timer \in activeTimers :
       memorySystem' = compressMemoriesInternal(memorySystem, now)
  /\ lastOp' = [NoOp("compress") EXCEPT !.n = Len(memorySystem.shortTerm)]
  /\ calls' = [calls EXCEPT !.ops = @ + 1]
  /\ pending' = pending + 1
  /\ UNCHANGED <<rendered, now, activeTimers, effect>>
  /\ UNCHANGED nonMemoryVars

\* The interval callback of the effect: compressMemories()
TimerTick ==
  /\ calls.ops < MaxOps
  /\ \E timer \in activeTimers :
       memorySystem' = compressMemoriesInternal(memorySystem, now)
  /\ lastOp' = [NoOp("compress") EXCEPT !.n = Len(memorySystem.shortTerm)]
  /\ calls' = [calls EXCEPT !.ops = @ + 1]
  /\ pending' = pending + 1
  /\ UNCHANGED <<rendered, now, activeTimers, effect>>
  /\ UNCHANGED nonMemoryVars

RetrieveMemories ==
  /\ effect.mounted
  /\ calls.ops < MaxOps
  /\ \E query \in Queries, options \in RetrieveOptions :
       LET scored == scoredMemoriesOf(rendered, query, options.threshold,
                                      options.includeArchived, now)
           result == retrieveResult(scored, options.sortBy, options.limit)
           resultIds == [i \in 1..Len(result) |-> result[i].memory.id]
       IN /\ memorySystem' = retrieveUpdate(memorySystem, Range(resultIds))
          /\ lastOp' = [NoOp("retrieve") EXCEPT !.result = resultIds]
  /\ calls' = [calls EXCEPT !.ops = @ + 1]
  /\ pending' = pending + 1
  /\ UNCHANGED <<rendered, now, activeTimers, effect>>
  /\ UNCHANGED nonMemoryVars

GetMemoryStats ==
  /\ getMemoryStats(rendered).totalMemories >= 0
  /\ UNCHANGED vars

Render ==
  /\ effect.mounted
  /\ pending > 0
  /\ rendered' = memorySystem
  /\ pending' = 0
  /\ UNCHANGED <<memorySystem, now, activeTimers, effect, calls, lastOp>>
  /\ UNCHANGED nonMemoryVars

AdvanceClock ==
  /\ calls.ops < MaxOps
  /\ pending = 0
  /\ \E days \in ClockSteps : now' = now + days
  /\ calls' = [calls EXCEPT !.ops = @ + 1]
  /\ lastOp' = NoOp("advance")
  /\ UNCHANGED <<memorySystem, rendered, pending, activeTimers, effect>>
  /\ UNCHANGED nonMemoryVars

Next ==
  \/ StoreMemory
  \/ CompressMemories
  \/ TimerTick
  \/ RetrieveMemories
  \/ GetMemoryStats
  \/ Render
  \/ AdvanceClock

Spec == Init /\ [][Next]_vars

----------------------------------------------------------------------------
(* The life of the periodic-cleanup effect.  The component of Spec stays    *)
(* mounted and its effect runs once; here the effect is also re-run, when   *)
(* config.cleanupInterval changes between two renders, and the component    *)
(* is unmounted.  The store starts as constructed.                          *)

\* clearInterval(id) and setInterval(...) returning id, on the set of
\* active intervals
clearIntervalNothing(timers, id) == timers

clearInterval(timers, id) == timers \ {id}

setInterval(timers, id) == timers \cup {id}

\* A render with a changed config.cleanupInterval: React runs the cleanup
\* function of the previous run of the effect, then the effect again
RestartEffect ==
  /\ effect.mounted
  /\ calls.ops < MaxOps
  /\ LET cleared == clearInterval(activeTimers, effect.cleanupInterval)
         cleanupInterval == effect.created + 1
     IN /\ activeTimers' = setInterval(cleared, cleanupInterval)
        /\ effect' = [effect EXCEPT !.cleanupInterval = cleanupInterval,
                                    !.created = cleanupInterval]
  /\ rendered' = memorySystem
  /\ pending' = 0
  /\ calls' = [calls EXCEPT !.ops = @ + 1]
  /\ lastOp' = NoOp("restart")
  /\ UNCHANGED <<memorySystem, now>>
  /\ UNCHANGED nonMemoryVars

\* The unmount: React runs the cleanup function of the effect
UnmountKeepingInterval ==
  /\ effect.mounted
  /\ effect' = [effect EXCEPT !.mounted = FALSE]
  /\ lastOp' = NoOp("unmount")
  /\ UNCHANGED <<memorySystem, rendered, pending, now, activeTimers, calls>>
  /\ UNCHANGED nonMemoryVars

Unmount ==
  /\ effect.mounted
  /\ activeTimers' = clearInterval(activeTimers, effect.cleanupInterval)
  /\ effect' = [effect EXCEPT !.mounted = FALSE]
  /\ lastOp' = NoOp("unmount")
  /\ UNCHANGED <<memorySystem, rendered, pending, now, calls>>
  /\ UNCHANGED nonMemoryVars

InitCycle == Init /\ memorySystem.shortTerm = <<>>

NextCycle ==
  \/ Next
  \/ RestartEffect
  \/ Unmount

\* The interval callback runs whenever it stays due
SpecCycle == InitCycle /\ [][NextCycle]_vars /\ WF_vars(TimerTick)

----------------------------------------------------------------------------
(* Retrieval from a store of aged records.  The store holds three records,  *)
(* each appended by storeMemory: "alpha" stored at day 0, then "alpha beta" *)
(* and the number 17 stored on a later day; the two texts have been         *)
(* retrieved at most once since.  The calls made are retrievals.            *)

\* The ages in days of the stored texts at the first call: new, either side
\* of the age at which an exact match of importance 0 falls below the
\* default threshold, and the age at which the recency factor stops falling
StoredAges == {0, 12, 13, 50}
StoredImportances == {0, One}
StoredAccessCounts == {0, 1}

InitRetrieve ==
  \E age1, age2 \in StoredAges, importance1, importance2 \in StoredImportances,
     count1, count2 \in StoredAccessCounts :
    /\ age2 <= age1
    /\ memorySystem =
         [shortTerm |->
            << [MemoryItem(1, 0 - 1, 0, importance1, <<"critical">>)
                  EXCEPT !.accessCount = count1],
               [MemoryItem(2, 0 - 3, age1 - age2, importance2, <<>>)
                  EXCEPT !.accessCount = count2],
               MemoryItem(3, 17, age1 - age2, 5000, <<>>) >>,
          longTerm |-> <<>>,
          archive |-> <<>>,
          compressionRatio |-> [num |-> 7, den |-> 10],
          retentionScore |-> 8000,
          cyclicCleanup |-> 0]
    /\ rendered = memorySystem
    /\ pending = 0
    /\ now = age1
    /\ activeTimers = {1}
    /\ effect = MountedEffect
    /\ calls = [ops |-> 0, nextId |-> 4]
    /\ lastOp = NoOp("init")
    /\ InitNonMemory

NextRetrieve ==
  \/ RetrieveMemories
  \/ GetMemoryStats
  \/ Render

SpecRetrieve == InitRetrieve /\ [][NextRetrieve]_vars

----------------------------------------------------------------------------
(* Vocabulary of the properties *)

Ids(tier) == {tier[i].id : i \in 1..Len(tier)}

AllRecords(state) == state.shortTerm \o state.longTerm \o state.archive

AllIds(state) == Ids(AllRecords(state))

\* The step is one call of the hook
IsCall == calls'.ops = calls.ops + 1

\* The step is a call of compressMemories (by a caller or by the timer)
IsCompressCall == IsCall /\ lastOp'.op = "compress"

\* The step is a call of storeMemory with an item that is not a duplicate
IsFreshStore == IsCall /\ lastOp'.op = "store" /\ ~lastOp'.duplicate

\* The step is a storeMemory whose append leaves more than 100 records
IsOverflowingStore == IsFreshStore /\ lastOp'.n > ShortTermLimit

\* The step executes the compression routine
CompressionRuns == IsCompressCall \/ IsOverflowingStore

\* The short-term records the compression routine of this step starts from
Pool ==
  IF lastOp'.op = "store"
  THEN Append(memorySystem.shortTerm, lastOp'.item)
  ELSE memorySystem.shortTerm

\* The records this step appended to longTerm
Promoted ==
  SubSeq(memorySystem'.longTerm, Len(memorySystem.longTerm) + 1,
         Len(memorySystem'.longTerm))

LastStoreOverflowed ==
  lastOp.op = "store" /\ ~lastOp.duplicate /\ lastOp.n > ShortTermLimit

----------------------------------------------------------------------------
(* C1 *)

\* C1: after any sequence of store, retrieve and compress calls (store-
\* triggered and timer-triggered compression included), every record id the
\* store holds is in exactly one of shortTerm, longTerm and archive, once.
EveryIdInOneTierOnce ==
  Cardinality(AllIds(memorySystem)) = Len(AllRecords(memorySystem))

\* A retrieve that returned records from a store whose three tiers are in use
RetrievedAcrossTiers ==
  /\ lastOp.op = "retrieve"
  /\ lastOp.result # <<>>
  /\ memorySystem.longTerm # <<>>
  /\ memorySystem.archive # <<>>

----------------------------------------------------------------------------
(* C2 *)

\* C2: shortTerm never holds more than 100 records, neither in the state nor
\* in what a render shows: the store whose append makes 101 runs the
\* compression routine in the same step, which leaves 35.
ShortTermWithinLimit ==
  /\ Len(memorySystem.shortTerm) <= ShortTermLimit
  /\ Len(rendered.shortTerm) <= ShortTermLimit
  /\ LastStoreOverflowed => Len(memorySystem.shortTerm) = keepInShortTerm

\* The store that appended the 101st record has been rendered
OverflowingStoreRendered ==
  LastStoreOverflowed /\ pending = 0

----------------------------------------------------------------------------
(* C3 *)

\* C3: a store of an item whose content is identical to the content of a
\* record in shortTerm changes nothing: the tiers, compressionRatio and
\* cyclicCleanup are as before, so no compression ran.
IdenticalContentStoreIsNoOp ==
  [][ (/\ IsCall
       /\ lastOp'.op = "store"
       /\ \E i \in 1..Len(memorySystem.shortTerm) :
            memorySystem.shortTerm[i].content = lastOp'.item.content)
      => memorySystem' = memorySystem ]_vars

\* A store was just given the content of a record that shortTerm holds
IdenticalContentStored ==
  /\ lastOp.op = "store"
  /\ lastOp.duplicate
  /\ \E i \in 1..Len(memorySystem.shortTerm) :
       /\ memorySystem.shortTerm[i].content = lastOp.item.content
       /\ memorySystem.shortTerm[i].id # lastOp.item.id

----------------------------------------------------------------------------
(* C4 *)

\* C4 as stated: after a store of an item that is not a duplicate, the item
\* is in exactly one tier, also when the store pushed shortTerm past 100.
StoredItemAlwaysHeld ==
  (lastOp.op = "store" /\ ~lastOp.duplicate)
    => Cardinality({i \in 1..Len(AllRecords(memorySystem)) :
                      AllRecords(memorySystem)[i].id = lastOp.item.id}) = 1

\* C4: after a store of an item that is not a duplicate, the item is in
\* exactly one tier (the last record of shortTerm when the append left at
\* most 100), unless the append left more than 100 and the item's
\* retentionScore is at most 0.3 and no higher than that of any record the
\* triggered compression kept or promoted: then it is in no tier.
StoredItemHeldUnlessDiscarded ==
  (lastOp.op = "store" /\ ~lastOp.duplicate) =>
    LET all == AllRecords(memorySystem)
        held == {i \in 1..Len(all) : all[i].id = lastOp.item.id}
        score == calculateRetentionScore(lastOp.item, now)
        ranked == memorySystem.shortTerm
                    \o SubSeq(memorySystem.longTerm,
                              Len(memorySystem.longTerm) - PromoteCount + 1,
                              Len(memorySystem.longTerm))
    IN IF lastOp.n <= ShortTermLimit
       THEN /\ Cardinality(held) = 1
            /\ memorySystem.shortTerm[Len(memorySystem.shortTerm)].id
                 = lastOp.item.id
       ELSE \/ Cardinality(held) = 1
            \/ /\ held = {}
               /\ score <= ArchiveWorthyScore
               /\ \A k \in 1..Len(ranked) : ranked[k].retentionScore >= score

\* The store that pushed shortTerm past 100 kept its item, in the archive
OverflowingStoreArchivedItem ==
  /\ LastStoreOverflowed
  /\ lastOp.item.id \in Ids(memorySystem.archive)

----------------------------------------------------------------------------
(* C5 *)

\* C5: when the compression routine runs on n > 50 short-term records,
\* shortTerm becomes 35 of them and min(20, n - 35) > 0 more are appended to
\* longTerm behind what it held; these records carry their retentionScore and
\* come in descending score order (so each kept record scores at least as high
\* as each promoted one), and no record left out scores higher than the last
\* of them.
CompressKeepsTopAndPromotesNext ==
  [][ (CompressionRuns /\ Len(Pool) > compressionThreshold) =>
        LET n == Len(Pool)
            ranked == memorySystem'.shortTerm \o Promoted
        IN /\ Len(memorySystem'.shortTerm) = 35
           /\ Len(Promoted) = Min(20, n - 35)
           /\ Len(Promoted) > 0
           /\ SubSeq(memorySystem'.longTerm, 1, Len(memorySystem.longTerm))
                = memorySystem.longTerm
           /\ \A k \in 1..(Len(ranked) - 1) :
                ranked[k].retentionScore >= ranked[k + 1].retentionScore
           /\ Cardinality(Ids(ranked)) = Len(ranked)
           /\ \A k \in 1..Len(ranked) : \E i \in 1..n :
                ranked[k] =
                  [Pool[i] EXCEPT !.retentionScore =
                                    calculateRetentionScore(Pool[i], now)]
           /\ \A i \in 1..n :
                Pool[i].id \notin Ids(ranked) =>
                  calculateRetentionScore(Pool[i], now)
                    <= ranked[Len(ranked)].retentionScore ]_vars

\* A compress call found between 51 and 54 records and promoted n - 35
CompressedBelowFiftyFive ==
  /\ lastOp.op = "compress"
  /\ lastOp.n > compressionThreshold
  /\ lastOp.n < 55
  /\ Len(memorySystem.shortTerm) = 35
  /\ Len(memorySystem.longTerm) = lastOp.n - 35

----------------------------------------------------------------------------
(* C6 *)

\* C6: when the compression routine runs on n > 55 short-term records, the
\* n - 55 records it neither keeps nor promotes score no higher than any it
\* keeps or promotes, and each of them is in the archive afterwards if and
\* only if its retentionScore is above 0.3; the others are in no tier.
CompressArchivesAboveThreshold ==
  [][ (CompressionRuns /\ Len(Pool) > 55) =>
        LET n == Len(Pool)
            rankedIds == Ids(memorySystem'.shortTerm) \cup Ids(Promoted)
            rankedScores ==
              {memorySystem'.shortTerm[k].retentionScore :
                 k \in 1..Len(memorySystem'.shortTerm)}
                \cup {Promoted[k].retentionScore : k \in 1..Len(Promoted)}
            beyond == {i \in 1..n : Pool[i].id \notin rankedIds}
        IN /\ Cardinality(rankedIds) = 55
           /\ Cardinality(beyond) = n - 55
           /\ \A i \in beyond :
                /\ Pool[i].id \in Ids(memorySystem'.archive)
                     <=> calculateRetentionScore(Pool[i], now) > 3000
                /\ Pool[i].id \notin Ids(memorySystem'.archive)
                     => Pool[i].id \notin AllIds(memorySystem')
                /\ \A score \in rankedScores :
                     score >= calculateRetentionScore(Pool[i], now) ]_vars

\* A compress call on more than 55 records archived some and discarded some
CompressArchivedAndDiscarded ==
  /\ lastOp.op = "compress"
  /\ lastOp.n > 55
  /\ memorySystem.cyclicCleanup = 1
  /\ memorySystem.archive # <<>>
  /\ Len(AllRecords(memorySystem)) < lastOp.n

----------------------------------------------------------------------------
(* C7 *)

----------------------------------------------------------------------------
(* C8 *)

\* C8: cyclicCleanup counts the executions of the compression routine: a
\* compress call (by a caller or by the timer) and a store whose append
\* leaves more than 100 records each add exactly 1; no other step (another
\* store, a retrieve, a stats read, a render) changes it.
CyclicCleanupCountsCompressions ==
  [][ memorySystem'.cyclicCleanup =
        memorySystem.cyclicCleanup + (IF CompressionRuns THEN 1 ELSE 0) ]_vars

\* Two compression cycles, then a retrieve
RetrievedAfterTwoCycles ==
  /\ lastOp.op = "retrieve"
  /\ memorySystem.cyclicCleanup = 2

----------------------------------------------------------------------------
(* C9 *)

\* C9: whatever the number of short-term records, an execution of the
\* compression routine leaves in the archive no record older than 30 days
\* with importance <= 0.8, and leaves in it every record it held with
\* importance > 0.8.
CompressionSweepsArchive ==
  [][ CompressionRuns =>
        /\ \A k \in 1..Len(memorySystem'.archive) :
             ~ (/\ now - memorySystem'.archive[k].timestamp > 30
                /\ memorySystem'.archive[k].importance <= 8000)
        /\ \A i \in 1..Len(memorySystem.archive) :
             memorySystem.archive[i].importance > 8000 =>
               \E k \in 1..Len(memorySystem'.archive) :
                 memorySystem'.archive[k] = memorySystem.archive[i] ]_vars

\* After a compression the archive holds records older than 30 days, all of
\* importance above 0.8, the others it held having been swept
OldImportantRecordsRetained ==
  /\ lastOp.op = "compress"
  /\ memorySystem.cyclicCleanup = 2
  /\ Len(memorySystem.archive) = 5
  /\ \A k \in 1..Len(memorySystem.archive) :
       /\ now - memorySystem.archive[k].timestamp > 30
       /\ memorySystem.archive[k].importance > 8000

----------------------------------------------------------------------------
(* C10 *)

\* C10: an execution of the compression routine on n > 50 short-term records
\* sets compressionRatio to (records kept in shortTerm + records promoted to
\* longTerm + records archived) / n, a value in [0, 1]; on 50 or fewer it
\* leaves compressionRatio unchanged.
CompressionRatioIsRetainedFraction ==
  [][ CompressionRuns =>
        LET n == Len(Pool)
            archivedNow == Ids(memorySystem'.archive) \ Ids(memorySystem.archive)
            retained == Len(memorySystem'.shortTerm) + Len(Promoted)
                          + Cardinality(archivedNow)
            ratio == memorySystem'.compressionRatio
        IN IF n > 50
           THEN /\ ratio.den > 0
                /\ ratio.num * n = retained * ratio.den
                /\ 0 <= ratio.num
                /\ ratio.num <= ratio.den
           ELSE ratio = memorySystem.compressionRatio ]_vars

\* A compression that discarded records: a ratio below 1
CompressionRatioBelowOne ==
  /\ lastOp.op = "compress"
  /\ lastOp.n > 50
  /\ memorySystem.cyclicCleanup = 1
  /\ memorySystem.archive # <<>>
  /\ memorySystem.compressionRatio.num < memorySystem.compressionRatio.den


----------------------------------------------------------------------------
(* Retrieval *)

\* The step is a retrieve call
IsRetrieveCall == IsCall /\ lastOp'.op = "retrieve"

\* The record with this id among the records of a state
RecordOf(state, id) ==
  LET all == AllRecords(state)
  IN all[CHOOSE i \in 1..Len(all) : all[i].id = id]

\* C11: a retrieve call increases by exactly 1 the accessCount of every
\* record it returns, in whichever tier the store holds it (archive
\* included), and leaves the accessCount of every other record as it was.
\* Stated for the calls that read the store's current state (no update is
\* waiting for a render), where what is returned is what the store holds
RetrieveCountsEveryReturnedRecord ==
  [][(IsRetrieveCall /\ pending = 0) =>
       \A id \in AllIds(memorySystem) :
         RecordOf(memorySystem', id).accessCount =
           RecordOf(memorySystem, id).accessCount
             + (IF id \in Range(lastOp'.result) THEN 1 ELSE 0)]_vars

\* C12: a retrieve call sets lastAccessed of every stored record it
\* returns to the time of the call: afterwards the field is defined and
\* not earlier than the call
RetrieveStampsLastAccessed ==
  [][IsRetrieveCall =>
       \A id \in Range(lastOp'.result) \cap AllIds(memorySystem') :
         /\ RecordOf(memorySystem', id).lastAccessed # NoDate
         /\ RecordOf(memorySystem', id).lastAccessed >= now]_vars

\* The ids, in order, that retrieveMemories(query, options) returns when
\* called in this state
Returned(query, options) ==
  LET scored == scoredMemoriesOf(rendered, query, options.threshold,
                                 options.includeArchived, now)
      result == retrieveResult(scored, options.sortBy, options.limit)
  IN [i \in 1..Len(result) |-> result[i].memory.id]

\* The records of the state a call reads that are candidates, and the ids
\* of those whose relevance reaches the threshold
Candidates(includeArchived) ==
  rendered.shortTerm \o rendered.longTerm
    \o (IF includeArchived THEN rendered.archive ELSE <<>>)

Qualifying(query, options) ==
  LET candidates == Candidates(options.includeArchived)
  IN {candidates[i].id : i \in
        {j \in 1..Len(candidates) :
           calculateRelevance(query, candidates[j], now)
             >= options.threshold}}

\* C13: whatever the query and the options, retrieve returns at most limit
\* records, each a candidate whose relevance is at least the threshold, and
\* when fewer than limit candidates reach the threshold it returns them all
RetrieveReturnsQualifyingUpToLimit ==
  \A query \in Queries, options \in RetrieveOptions :
    LET result == Returned(query, options)
    IN /\ Len(result) <= options.limit
       /\ Cardinality(Range(result)) = Len(result)
       /\ Range(result) \subseteq Qualifying(query, options)
       /\ Cardinality(Qualifying(query, options)) < options.limit
            => Qualifying(query, options) \subseteq Range(result)

\* A retrieve of "alpha" with limit 1 returned one of two qualifying records
LimitCutQualifying ==
  /\ lastOp.op = "retrieve"
  /\ \E options \in RetrieveOptions :
       /\ options.limit = 1
       /\ Cardinality(Qualifying(<<"a", "l", "p", "h", "a">>, options)) = 2
       /\ lastOp.result = Returned(<<"a", "l", "p", "h", "a">>, options)
       /\ Len(lastOp.result) = 1

\* What sortBy orders a record by, greatest first: its timestamp, its
\* importance, or its relevance to the query
OrderKey(id, query, sortBy) ==
  LET memory == RecordOf(rendered, id)
  IN IF sortBy = "recency" THEN memory.timestamp
     ELSE IF sortBy = "importance" THEN memory.importance
     ELSE calculateRelevance(query, memory, now)

\* C14: the records retrieve returns are in the order sortBy selects
\* (relevance descending, newest timestamp first, or importance descending),
\* and no qualifying candidate that is left out ranks strictly ahead of a
\* returned one
RetrieveReturnsFirstInSortOrder ==
  \A query \in Queries, options \in RetrieveOptions :
    LET result == Returned(query, options)
        key(id) == OrderKey(id, query, options.sortBy)
    IN /\ \A i, j \in 1..Len(result) :
            i < j => key(result[i]) >= key(result[j])
       /\ \A out \in Qualifying(query, options) \ Range(result) :
            /\ Len(result) = options.limit
            /\ \A i \in 1..Len(result) : key(out) <= key(result[i])

\* A retrieve of "alpha" returned the record stored second ahead of, or
\* instead of, the qualifying record stored first
SortReorderedCandidates ==
  /\ lastOp.op = "retrieve"
  /\ \E options \in RetrieveOptions :
       /\ lastOp.result = Returned(<<"a", "l", "p", "h", "a">>, options)
       /\ Len(lastOp.result) >= 1
       /\ lastOp.result[1] = 2
       /\ 1 \in Qualifying(<<"a", "l", "p", "h", "a">>, options)

\* C15: whatever the query, retrieve with includeArchived = false returns
\* no record that resides in archive in the state the call reads, and with
\* includeArchived = true a record of archive is a candidate like any
\* other: it is returned when its relevance reaches the threshold and no
\* more than limit candidates do
ArchiveIsCandidateOnlyOnRequest ==
  \A query \in Queries, options \in RetrieveOptions :
    LET result == Range(Returned(query, options))
    IN IF ~options.includeArchived
       THEN result \cap Ids(rendered.archive) = {}
       ELSE \/ Cardinality(Qualifying(query, options)) > options.limit
            \/ \A i \in 1..Len(rendered.archive) :
                 calculateRelevance(query, rendered.archive[i], now)
                     >= options.threshold
                   => rendered.archive[i].id \in result

\* A retrieve read a state with archived records and returned one of them,
\* which a retrieve with the default options leaves out
RetrievedFromArchive ==
  /\ lastOp.op = "retrieve"
  /\ pending = 1
  /\ Range(lastOp.result) \cap Ids(rendered.archive) # {}
  /\ Returned(<<"1", "7">>, DefaultOptions) = <<>>
  /\ lastOp.result
       \in {Returned(<<"1", "7">>, options) : options \in RetrieveOptions}

\* The record's content is a text and equals the query
ContentEqualsQuery(memory, query) ==
  /\ memory.content < 0
  /\ NamedTexts[0 - memory.content] = query

\* A retrieve with the default threshold returns the record whenever no
\* more than limit candidates qualify, its relevance being at least 0.7
QualifiesAndIsReturned(memory, query) ==
  /\ calculateRelevance(query, memory, now) >= DefaultThreshold
  /\ \A options \in RetrieveOptions :
       (/\ options.threshold = DefaultThreshold
        /\ Cardinality(Qualifying(query, options)) <= options.limit)
         => memory.id \in Range(Returned(query, options))

StoreIsVisibleToNextCall ==
  (/\ lastOp.op = "store"
   /\ ~lastOp.duplicate
   /\ lastOp.n <= ShortTermLimit
   /\ ContentEqualsQuery(lastOp.item, <<"a", "l", "p", "h", "a">>))
    => /\ Returned(<<"a", "l", "p", "h", "a">>, DefaultOptions)
            = <<lastOp.item.id>>
       /\ getMemoryStats(rendered).shortTermCount = lastOp.n
       /\ getMemoryStats(rendered).totalMemories
            = Len(AllRecords(memorySystem))

----------------------------------------------------------------------------
(* The fields of a record over its life *)

\* Each held record's id paired with its accessCount
AccessCounts(state) ==
  {<<AllRecords(state)[i].id, AllRecords(state)[i].accessCount>> :
     i \in 1..Len(AllRecords(state))}

\* C18: in every step, a record held before and after has the accessCount
\* it had, unless the step is a retrieve call that returns it, which adds
\* 1: store and compression carry accessCount forward, whichever tier the
\* record ends in, and accessCount never decreases
AccessCountChangesOnlyWhenReturned ==
  [][LET before == AccessCounts(memorySystem)
         held == AllIds(memorySystem)
     IN \A after \in AccessCounts(memorySystem') \ before :
          \/ after[1] \notin held
          \/ /\ IsRetrieveCall
             /\ after[1] \in Range(lastOp'.result)
             /\ <<after[1], after[2] - 1>> \in before]_vars

\* A compression has moved a record that had been retrieved out of
\* shortTerm, with its accessCount
CompressMovedRetrievedRecord ==
  /\ lastOp.op = "compress"
  /\ lastOp.n > compressionThreshold
  /\ \E i \in 1..Len(memorySystem.longTerm \o memorySystem.archive) :
       (memorySystem.longTerm \o memorySystem.archive)[i].accessCount > 0

\* Each held record's id with the fields its store call supplied
SuppliedFields(state) ==
  {<<AllRecords(state)[i].id, AllRecords(state)[i].content,
     AllRecords(state)[i].timestamp, AllRecords(state)[i].importance,
     AllRecords(state)[i].tags>> : i \in 1..Len(AllRecords(state))}

\* C19: in every step, a record held before and after has the id, content,
\* timestamp, importance and tags it had, and a record that is new is the
\* item of a store call with the values that call supplied: no call and no
\* move between tiers changes them
SuppliedFieldsNeverChange ==
  [][LET before == SuppliedFields(memorySystem)
         held == AllIds(memorySystem)
     IN \A after \in SuppliedFields(memorySystem') \ before :
          /\ after[1] \notin held
          /\ IsFreshStore
          /\ after = <<lastOp'.item.id, lastOp'.item.content,
                       lastOp'.item.timestamp, lastOp'.item.importance,
                       lastOp'.item.tags>>]_vars

\* An item has been stored in a store that has compressed records into
\* longTerm and holds a retrieved record
StoredAfterCompressAndRetrieve ==
  /\ lastOp.op = "store"
  /\ ~lastOp.duplicate
  /\ lastOp.item.id \in Ids(memorySystem.shortTerm)
  /\ Len(memorySystem.longTerm) > 0
  /\ \E i \in 1..Len(AllRecords(memorySystem)) :
       AllRecords(memorySystem)[i].accessCount > 0

\* The ids of a tier in the order the tier holds them
IdsInOrder(tier) == [i \in 1..Len(tier) |-> tier[i].id]

\* C20: the life of a record.  In every step: a record that is new is the
\* item of a store call, held in shortTerm unless that store ran the
\* compression routine; records leave shortTerm, for longTerm, for archive
\* or for good, only when the compression routine runs; nothing enters
\* longTerm or archive but from shortTerm, and nothing returns to
\* shortTerm or passes between longTerm and archive; a record leaves
\* archive only in a compression's sweep, at the age of 30 days or more,
\* and is then held nowhere; longTerm keeps its records in their order
\* and only grows at its end
RecordLifecycle ==
  [][LET short == Ids(memorySystem.shortTerm)
         long == Ids(memorySystem.longTerm)
         arch == Ids(memorySystem.archive)
         short2 == Ids(memorySystem'.shortTerm)
         long2 == Ids(memorySystem'.longTerm)
         arch2 == Ids(memorySystem'.archive)
         new == (short2 \cup long2 \cup arch2) \ (short \cup long \cup arch)
     IN /\ \A id \in new :
             /\ IsFreshStore
             /\ id = lastOp'.item.id
             /\ id \in short2 \/ IsOverflowingStore
        /\ short \ short2 # {} => CompressionRuns
        /\ short2 \cap (long \cup arch) = {}
        /\ (long2 \ long) \cup (arch2 \ arch) \subseteq short \cup new
        /\ long2 \cap arch = {}
        /\ arch2 \cap long = {}
        /\ arch \ arch2 # {} => CompressionRuns
        /\ (arch \ arch2) \cap (short2 \cup long2) = {}
        /\ \A i \in 1..Len(memorySystem.archive) :
             memorySystem.archive[i].id \notin arch2
               => now - memorySystem.archive[i].timestamp
                    >= archiveRetentionDays
        /\ Len(memorySystem'.longTerm) >= Len(memorySystem.longTerm)
        /\ SubSeq(IdsInOrder(memorySystem'.longTerm), 1,
                  Len(memorySystem.longTerm))
             = IdsInOrder(memorySystem.longTerm)]_vars

\* A compression has swept from archive a record that the last rendered
\* state held there, and longTerm has the records promoted earlier
SweptWhileLongTermKept ==
  /\ lastOp.op = "compress"
  /\ Len(memorySystem.longTerm) > 0
  /\ Len(memorySystem.longTerm) = Len(rendered.longTerm)
  /\ \E id \in Ids(rendered.archive) : id \notin AllIds(memorySystem)

----------------------------------------------------------------------------
(* The periodic cycle *)

\* C21: at every moment at most one interval is active, and while the
\* component is mounted it is the one the effect set last: a re-run of the
\* effect has cleared the interval of the previous run
AtMostOneActiveTimer ==
  /\ Cardinality(activeTimers) <= 1
  /\ effect.mounted => activeTimers = {effect.cleanupInterval}
  /\ effect.cleanupInterval = effect.created

\* The effect has been re-run twice and one interval is active
EffectRestartedTwice ==
  /\ lastOp.op = "restart"
  /\ effect.created = 3
  /\ activeTimers = {3}

\* C22: once the component is unmounted no interval is active, clearing
\* the effect's interval again changes nothing, and no step increases
\* cyclicCleanup any more
NoTimerAfterTeardown ==
  [][/\ ~effect'.mounted =>
          /\ activeTimers' = {}
          /\ clearInterval(activeTimers', effect'.cleanupInterval) = {}
     /\ ~effect.mounted =>
          memorySystem'.cyclicCleanup = memorySystem.cyclicCleanup]_vars

\* The component has been unmounted after its interval had run compressions
\* and while further calls could still be made
UnmountedAfterTicks ==
  /\ ~effect.mounted
  /\ lastOp.op = "unmount"
  /\ memorySystem.cyclicCleanup > 0
  /\ calls.ops < MaxOps

\* C23: every run of the interval callback executes the compression
\* routine exactly once, and while the component is mounted and calls can
\* still be made, cyclicCleanup eventually exceeds the value it has, however
\* store and retrieve calls interleave
TimerTicksKeepCompressing ==
  /\ [][(IsCompressCall /\ activeTimers # {}) =>
          /\ memorySystem' = compressMemoriesInternal(memorySystem, now)
          /\ memorySystem'.cyclicCleanup = memorySystem.cyclicCleanup + 1]_vars
  /\ \A k \in 0..MaxOps :
       (effect.mounted /\ calls.ops < MaxOps
          /\ memorySystem.cyclicCleanup = k)
         ~> (\/ memorySystem.cyclicCleanup > k
             \/ ~effect.mounted
             \/ calls.ops >= MaxOps)

\* A compression has run while a store and a retrieve were waiting for a
\* render
CompressedBetweenPendingCalls ==
  /\ lastOp.op = "compress"
  /\ effect.mounted
  /\ activeTimers # {}
  /\ pending = MaxOps
  /\ memorySystem.cyclicCleanup = 1
  /\ Len(memorySystem.shortTerm) > 0

----------------------------------------------------------------------------
(* Interleaved calls *)

\* The callers only store and retrieve, in any order, between renders
NextStoreRetrieve ==
  \/ StoreMemory
  \/ RetrieveMemories
  \/ GetMemoryStats
  \/ Render

SpecStoreRetrieve == Init /\ [][NextStoreRetrieve]_vars

\* C24: store and retrieve calls lose none of each other's updates,
\* whatever the state the retrieve has read.  A retrieve call leaves every
\* tier of the current state with the records it holds, in their order,
\* those stored since the last render included; it lowers no accessCount,
\* and for every record it returns that the current state holds, it adds 1
\* to the record's current accessCount.  A store call appends its item to
\* the current shortTerm (when no compression follows) and leaves every
\* accessCount as the retrieves before it left it
StoreAndRetrieveLoseNoUpdate ==
  [][LET before == AccessCounts(memorySystem)
         after == AccessCounts(memorySystem')
         incremented == Range(lastOp'.result) \cap AllIds(memorySystem)
     IN /\ IsRetrieveCall =>
             /\ IdsInOrder(memorySystem'.shortTerm)
                  = IdsInOrder(memorySystem.shortTerm)
             /\ IdsInOrder(memorySystem'.longTerm)
                  = IdsInOrder(memorySystem.longTerm)
             /\ IdsInOrder(memorySystem'.archive)
                  = IdsInOrder(memorySystem.archive)
             /\ after = {IF b[1] \in incremented
                           THEN <<b[1], b[2] + 1>> ELSE b : b \in before}
        /\ (IsFreshStore /\ ~IsOverflowingStore) =>
             /\ memorySystem'.shortTerm
                  = Append(memorySystem.shortTerm, lastOp'.item)
             /\ memorySystem'.longTerm = memorySystem.longTerm
             /\ memorySystem'.archive = memorySystem.archive
        /\ IsFreshStore =>
             \A a \in after \ before : a[1] = lastOp'.item.id]_vars

\* C25: a compression cycle is one step on the current state, whether the
\* timer, a caller or a store runs it: the three tiers, compressionRatio
\* and cyclicCleanup it leaves are those of the compression routine applied
\* to the state as the calls before it left it, so no record it promotes or
\* archives was in longTerm or archive before, and none is in two tiers
\* afterwards
CompressionIsOneAtomicStep ==
  [][CompressionRuns =>
       LET start == [memorySystem EXCEPT !.shortTerm = Pool]
           long == Ids(memorySystem.longTerm)
           arch == Ids(memorySystem.archive)
           long2 == Ids(memorySystem'.longTerm)
           arch2 == Ids(memorySystem'.archive)
       IN /\ memorySystem' = compressMemoriesInternal(start, now)
          /\ memorySystem'.cyclicCleanup = memorySystem.cyclicCleanup + 1
          /\ (long2 \ long) \cap arch = {}
          /\ (arch2 \ arch) \cap long = {}
          /\ long2 \cap arch2 = {}
          /\ Ids(memorySystem'.shortTerm) \cap (long2 \cup arch2) = {}
          /\ Len(memorySystem'.longTerm) = Cardinality(long2)
          /\ Len(memorySystem'.archive) = Cardinality(arch2)]_vars

\* Two compression cycles have run since the last render, the first of
\* them promoting records
TwoCyclesBetweenRenders ==
  /\ lastOp.op = "compress"
  /\ pending >= 2
  /\ memorySystem.cyclicCleanup = 2
  /\ Len(memorySystem.longTerm) = PromoteCount
  /\ Len(rendered.longTerm) = 0

\* C26: a retrieve call ranks the state its update is applied to, so every
\* record it returns is one the store holds at that moment: none that a
\* compression completed before the call has discarded or purged
RetrieveReturnsOnlyHeldRecords ==
  [][IsRetrieveCall =>
       Range(lastOp'.result) \subseteq AllIds(memorySystem)]_vars


----------------------------------------------------------------------------
(* The configured display values *)

\* Values of config.compressionRatio (a fraction) and
\* config.retentionThreshold other than the defaults 0.7 and 0.8
OtherConfigurations ==
  { [compressionRatio |-> [num |-> 5, den |-> 10],
     retentionThreshold |-> 5000] }

\* The state of the store constructed with another configuration after the
\* same calls, provided its tiers and counter have been the same so far:
\* retentionScore is the configured value, and compressionRatio is the
\* configured value until a compression of more than 50 records sets it
\* (such a compression promotes records to longTerm, which never shrinks)
WithConfiguration(state, config) ==
  [state EXCEPT
     !.retentionScore = config.retentionThreshold,
     !.compressionRatio =
        IF state.longTerm = <<>> THEN config.compressionRatio ELSE @]

Tiers(state) == <<state.shortTerm, state.longTerm, state.archive>>

\* The ids a retrieve call of the store constructed with the other
\* configuration returns in this state
ReturnedWith(config, query, options) ==
  LET scored == scoredMemoriesOf(WithConfiguration(rendered, config), query,
                                 options.threshold, options.includeArchived,
                                 now)
      result == retrieveResult(scored, options.sortBy, options.limit)
  IN [i \in 1..Len(result) |-> result[i].memory.id]

\* C27: compressionRatio and retentionThreshold of the configuration are
\* display values.  No step changes the state's retentionScore; a retrieve
\* call returns the same records in a store constructed with other values
\* of the two as in this one; and every store, retrieve and compress call
\* leaves the same shortTerm, longTerm and archive in both
ConfigurationIsDisplayOnly ==
  /\ [](\A config \in OtherConfigurations, query \in Queries,
           options \in RetrieveOptions :
          ReturnedWith(config, query, options) = Returned(query, options))
  /\ [][/\ memorySystem'.retentionScore = memorySystem.retentionScore
        /\ IsCall =>
             \A config \in OtherConfigurations :
               LET other == WithConfiguration(memorySystem, config)
                   tiers == Tiers(memorySystem')
               IN CASE lastOp'.op = "store" ->
                         Tiers(storeUpdate(other, lastOp'.item, now)) = tiers
                    [] lastOp'.op = "compress" ->
                         Tiers(compressMemoriesInternal(other, now)) = tiers
                    [] lastOp'.op = "retrieve" ->
                         Tiers(retrieveUpdate(other, Range(lastOp'.result)))
                           = tiers
                    [] OTHER -> TRUE ]_vars

\* A compression has moved records out of shortTerm and replaced the
\* configured compressionRatio, and a store has followed it
StoredAfterRatioReplaced ==
  /\ lastOp.op = "store"
  /\ ~lastOp.duplicate
  /\ memorySystem.longTerm # <<>>
  /\ memorySystem.compressionRatio # [num |-> 7, den |-> 10]
  /\ memorySystem.retentionScore = 8000

----------------------------------------------------------------------------
(* Contents that cannot be serialized.  JSON.stringify throws a TypeError  *)
(* on a BigInt and on an object that refers to itself; calculateSimilarity *)
(* has no try/catch, and neither has the updater of storeMemory, which     *)
(* calls it for the records of shortTerm in order until one is a           *)
(* duplicate.  An updater that throws makes the render throw: React        *)
(* discards the component, which runs the cleanup of its effect.           *)

Unserializable == 0 - (Len(NamedTexts) + 1)

Serializable(content) == content # Unserializable

\* The first comparison of prev.shortTerm.some(...) that stringifies a
\* content JSON.stringify throws on, or 0 if there is none
firstThrowing(prev, item) ==
  LET throwing == {i \in 1..Len(prev.shortTerm) :
                     \/ ~Serializable(prev.shortTerm[i].content)
                     \/ ~Serializable(item.content)}
  IN IF throwing = {} THEN 0
     ELSE CHOOSE i \in throwing : \A j \in throwing : i <= j

\* Whether the updater of storeMemory(item) throws on prev: some() reaches
\* a throwing comparison before it finds a duplicate
updaterThrows(prev, item) ==
  LET first == firstThrowing(prev, item)
  IN /\ first > 0
     /\ \A j \in 1..(first - 1) :
          calculateSimilarity(prev.shortTerm[j].content, item.content)
            <= DuplicateSimilarity

\* The contents of a store call, with one that cannot be serialized
StoreInputsOfAnyContent(fresh) ==
  StoreInputs(fresh)
    \cup {[content |-> Unserializable, importance |-> 5000, tags |-> <<>>]}

\* storeMemory(item) for an item of any content.  The promise it returns
\* resolves in every case; lastOp.op is "storeThrew" when the updater threw
StoreMemoryOfAnyContent ==
  /\ effect.mounted
  /\ calls.ops < MaxOps
  /\ \E input \in StoreInputsOfAnyContent(calls.nextId) :
       LET item == MemoryItem(calls.nextId, input.content, now,
                              input.importance, input.tags)
       IN IF updaterThrows(memorySystem, item)
          THEN /\ memorySystem' = memorySystem
               /\ effect' = [effect EXCEPT !.mounted = FALSE]
               /\ activeTimers' =
                    clearInterval(activeTimers, effect.cleanupInterval)
               /\ lastOp' = [NoOp("storeThrew") EXCEPT !.item = item]
          ELSE LET dup == isDuplicate(memorySystem, item)
               IN /\ memorySystem' = storeUpdate(memorySystem, item, now)
                  /\ lastOp' = [NoOp("store") EXCEPT
                                  !.duplicate = dup,
                                  !.n = Len(memorySystem.shortTerm)
                                          + (IF dup THEN 0 ELSE 1),
                                  !.item = item]
                  /\ UNCHANGED <<activeTimers, effect>>
  /\ calls' = [calls EXCEPT !.ops = @ + 1, !.nextId = @ + 1]
  /\ pending' = pending + 1
  /\ UNCHANGED <<rendered, now>>
  /\ UNCHANGED nonMemoryVars

\* The store as constructed, or holding fewer records than a compression
\* moves
InitAnyContent == Init /\ Len(memorySystem.shortTerm) < compressionThreshold

NextAnyContent ==
  \/ StoreMemoryOfAnyContent
  \/ CompressMemories
  \/ TimerTick
  \/ GetMemoryStats
  \/ Render

SpecAnyContent == InitAnyContent /\ [][NextAnyContent]_vars

\* C28: a store call whose content cannot be serialized ends in an error
\* and leaves the state as it was, also when shortTerm is empty, and the
\* store stays usable: a later store call of a serializable content does
\* not fail
UnserializableStoreIsRejected ==
  [][(IsCall /\ lastOp'.op \in {"store", "storeThrew"}) =>
       IF Serializable(lastOp'.item.content)
       THEN lastOp'.op = "store"
       ELSE /\ lastOp'.op = "storeThrew"
            /\ memorySystem' = memorySystem
            /\ effect'.mounted]_vars

----------------------------------------------------------------------------
(* C29 *)

\* C29: a record leaves archive only when it is older than 30 days and its
\* importance is at most 0.8; an archived record whose age is 30 days or
\* less, exactly 30 days included, is not purged by any call
ArchivePurgesOnlyOlderThanRetention ==
  [][IsCall =>
       LET before == Range(memorySystem.archive)
           purged == {m \in before : m.id \notin Ids(memorySystem'.archive)}
       IN \A m \in purged :
            /\ now - m.timestamp > archiveRetentionDays
            /\ m.importance <= ArchiveKeepImportance]_vars

----------------------------------------------------------------------------
(* Stores of similar texts, on the store as constructed *)

\* The contents of a store call: each text of the vocabulary, and a number
\* never stored before
StoreInputsOfTexts(fresh) ==
  {[content |-> 0 - k, importance |-> 5000, tags |-> <<>>] :
     k \in 1..Len(NamedTexts)}
    \cup {[content |-> fresh, importance |-> 5000, tags |-> <<>>]}

\* storeMemory(item) for these contents
StoreMemoryOfText ==
  /\ effect.mounted
  /\ calls.ops < MaxOps
  /\ \E input \in StoreInputsOfTexts(calls.nextId) :
       LET item == MemoryItem(calls.nextId, input.content, now,
                              input.importance, input.tags)
           dup == isDuplicate(memorySystem, item)
       IN /\ memorySystem' = storeUpdate(memorySystem, item, now)
          /\ lastOp' = [NoOp("store") EXCEPT
                          !.duplicate = dup,
                          !.n = Len(memorySystem.shortTerm)
                                  + (IF dup THEN 0 ELSE 1),
                          !.item = item]
  /\ calls' = [calls EXCEPT !.ops = @ + 1, !.nextId = @ + 1]
  /\ pending' = pending + 1
  /\ UNCHANGED <<rendered, now, activeTimers, effect>>
  /\ UNCHANGED nonMemoryVars

NextTexts == StoreMemoryOfText \/ GetMemoryStats \/ Render

SpecTexts == InitCycle /\ [][NextTexts]_vars

\* The words of a content: its serialization in lower case, split at
\* white space
WordsOf(content) == Range(SplitWhitespace(ToLowerCase(Stringify(content))))

\* Whether the similarity of two contents is above 0.9: it is 1 for
\* identical serializations and the ratio |A \cap B| / |A \cup B| of their
\* sets of words otherwise
SimilarityAboveNineTenths(content1, content2) ==
  \/ Stringify(content1) = Stringify(content2)
  \/ 10 * Cardinality(WordsOf(content1) \cap WordsOf(content2))
       > 9 * Cardinality(WordsOf(content1) \cup WordsOf(content2))

\* C30: a store call drops its item (the state stays as it was) if some
\* record in shortTerm has a similarity to it strictly above 0.9, and
\* appends it to shortTerm otherwise, a best similarity of exactly 0.9
\* included; the similarity is 1 for identical serialized contents and the
\* Jaccard ratio of the two sets of lower-case words otherwise
StoreDropsExactlyTheSimilar ==
  [][(IsCall /\ lastOp'.op = "store") =>
       LET item == lastOp'.item
           held == memorySystem.shortTerm
       IN IF \E i \in 1..Len(held) :
               SimilarityAboveNineTenths(held[i].content, item.content)
          THEN memorySystem' = memorySystem
          ELSE memorySystem'.shortTerm = Append(held, item)]_vars

\* The last store appended an item whose best similarity to the records
\* shortTerm held is exactly 0.9, after another store was dropped as a
\* duplicate
StoredAtExactlyNineTenths ==
  /\ lastOp.op = "store"
  /\ ~lastOp.duplicate
  /\ calls.nextId > Len(memorySystem.shortTerm) + 1
  /\ \E i \in 1..Len(memorySystem.shortTerm) :
       LET a == WordsOf(memorySystem.shortTerm[i].content)
           b == WordsOf(lastOp.item.content)
       IN /\ memorySystem.shortTerm[i].id # lastOp.item.id
          /\ 10 * Cardinality(a \cap b) = 9 * Cardinality(a \cup b)

----------------------------------------------------------------------------
(* C31 *)

\* C31: compression is deterministic under ties.  Records with equal
\* retention scores keep their relative shortTerm order in the ranking: of
\* two neighbours in the ranking (the records kept, then the records
\* promoted) with equal scores the first stood first in shortTerm, and a
\* record ranked behind the promoted ones with the score of the last of
\* them stood behind it in shortTerm.  So which of two equal-scored records
\* at rank 35 or 55 is kept, promoted or set aside depends on that order only
CompressionIsStableUnderTies ==
  [][(CompressionRuns /\ Len(Pool) > compressionThreshold) =>
       LET pool == Pool
           n == Len(pool)
           ranked == memorySystem'.shortTerm \o Promoted
           rankedIds == Ids(ranked)
           last == Len(ranked)
           stood == [k \in 1..last |->
                       CHOOSE i \in 1..n : pool[i].id = ranked[k].id]
           scores == [k \in 1..last |->
                        calculateRetentionScore(pool[stood[k]], now)]
           behind == {i \in 1..n : pool[i].id \notin rankedIds}
       IN /\ \A k \in 1..(last - 1) :
               scores[k] = scores[k + 1] => stood[k] < stood[k + 1]
          /\ \A i \in behind :
               calculateRetentionScore(pool[i], now) = scores[last]
                 => stood[last] < i]_vars

\* A compression has kept one and promoted the other of two records with
\* equal retention scores, and promoted one and set aside the other of two
CompressedAcrossTies ==
  /\ lastOp.op = "compress"
  /\ Len(memorySystem.shortTerm) = keepInShortTerm
  /\ Len(memorySystem.longTerm) = PromoteCount
  /\ memorySystem.shortTerm[keepInShortTerm].retentionScore
       = memorySystem.longTerm[1].retentionScore
  /\ \E k \in 1..Len(memorySystem.archive) :
       memorySystem.archive[k].retentionScore
         = memorySystem.longTerm[PromoteCount].retentionScore

----------------------------------------------------------------------------
(* C32 *)

\* The step is a storeMemory of a content that a record in longTerm or
\* archive has
IsStoreOfMovedContent ==
  /\ IsCall
  /\ lastOp'.op = "store"
  /\ \E m \in Range(memorySystem.longTerm \o memorySystem.archive) :
       m.content = lastOp'.item.content

\* The store of 54 records after storeMemory of the text "alpha" and a
\* compression, which has promoted that record to longTerm, and a render
InitMoved ==
  LET n == keepInShortTerm + PromoteCount - 1
      item == MemoryItem(n + 1, 0 - 1, 0, 5000, <<"critical">>)
      stored == storeUpdate([shortTerm |-> Prefill(n),
                             longTerm |-> <<>>,
                             archive |-> <<>>,
                             compressionRatio |-> [num |-> 7, den |-> 10],
                             retentionScore |-> 8000,
                             cyclicCleanup |-> 0], item, 0)
  IN /\ memorySystem = compressMemoriesInternal(stored, 0)
     /\ rendered = memorySystem
     /\ pending = 0
     /\ now = 0
     /\ activeTimers = {1}
     /\ effect = MountedEffect
     /\ calls = [ops |-> 0, nextId |-> n + 2]
     /\ lastOp = NoOp("init")
     /\ InitNonMemory

SpecMoved == InitMoved /\ [][Next]_vars

\* C32 as stated: a store of a content identical to that of a record in
\* longTerm or archive and of no record in shortTerm is not dropped: it
\* appends the item to shortTerm
MovedContentIsStoredAgain ==
  [][(/\ IsStoreOfMovedContent
      /\ \A i \in 1..Len(memorySystem.shortTerm) :
           memorySystem.shortTerm[i].content # lastOp'.item.content)
       => /\ memorySystem' # memorySystem
          /\ Len(memorySystem.shortTerm) < ShortTermLimit
               => memorySystem'.shortTerm
                    = Append(memorySystem.shortTerm, lastOp'.item)]_vars

\* C32: deduplication looks at shortTerm only.  A store of a content
\* identical to that of a record in longTerm or archive, and of a
\* similarity above 0.9 to no record in shortTerm, is not dropped: it
\* appends the item to shortTerm (and then compresses if that leaves more
\* than 100 records), so the store can hold two records of identical
\* content in different tiers
MovedContentIsStoredUnlessSimilar ==
  [][(/\ IsStoreOfMovedContent
      /\ \A i \in 1..Len(memorySystem.shortTerm) :
           ~SimilarityAboveNineTenths(memorySystem.shortTerm[i].content,
                                      lastOp'.item.content))
       => /\ memorySystem' # memorySystem
          /\ Len(memorySystem.shortTerm) < ShortTermLimit
               => memorySystem'.shortTerm
                    = Append(memorySystem.shortTerm, lastOp'.item)]_vars

\* The store holds two records of identical content in different tiers,
\* the second appended to shortTerm by the last call
SameContentInTwoTiers ==
  /\ lastOp.op = "store"
  /\ \E i \in 1..Len(memorySystem.shortTerm) :
       /\ memorySystem.shortTerm[i].id = lastOp.item.id
       /\ \E m \in Range(memorySystem.longTerm \o memorySystem.archive) :
            m.content = lastOp.item.content

----------------------------------------------------------------------------
(* C33 *)

\* A tier with the access counts of its records left out
WithoutAccessCounts(tier) ==
  [i \in 1..Len(tier) |-> [tier[i] EXCEPT !.accessCount = 0]]

\* C33: a retrieve call adds, removes, moves and reorders no record in any
\* tier and leaves compressionRatio, retentionScore and cyclicCleanup as
\* they were; it changes nothing but accessCount of records in shortTerm
\* and longTerm, and it leaves archive exactly as it was
RetrieveChangesAccessCountsOnly ==
  [][IsRetrieveCall =>
       /\ memorySystem'.archive = memorySystem.archive
       /\ memorySystem'.compressionRatio = memorySystem.compressionRatio
       /\ memorySystem'.retentionScore = memorySystem.retentionScore
       /\ memorySystem'.cyclicCleanup = memorySystem.cyclicCleanup
       /\ WithoutAccessCounts(memorySystem'.shortTerm)
            = WithoutAccessCounts(memorySystem.shortTerm)
       /\ WithoutAccessCounts(memorySystem'.longTerm)
            = WithoutAccessCounts(memorySystem.longTerm)
       /\ DOMAIN memorySystem' = DOMAIN memorySystem]_vars

\* A retrieve call has counted an access of a record of shortTerm or
\* longTerm while archive held records
RetrievedBesideArchive ==
  /\ lastOp.op = "retrieve"
  /\ memorySystem.archive # <<>>
  /\ \E m \in Range(memorySystem.shortTerm \o memorySystem.longTerm) :
       m.id \in Range(lastOp.result) /\ m.accessCount > 0

----------------------------------------------------------------------------
(* useFileProcessing: addFileToQueue and processNextFile.  A call of       *)
(* processNextFile runs to its first await in one step and from the last   *)
(* await to its end in another; calls of the hook and renders come between *)
(* the two.  The memory hook is left as constructed.                       *)

\* The memory hook as constructed
InitMemoryIdle ==
  /\ memorySystem =
       [shortTerm |-> <<>>,
        longTerm |-> <<>>,
        archive |-> <<>>,
        compressionRatio |-> [num |-> 7, den |-> 10],
        retentionScore |-> 8000,
        cyclicCleanup |-> 0]
  /\ rendered = memorySystem
  /\ pending = 0
  /\ now = 0
  /\ activeTimers = {1}
  /\ effect = MountedEffect
  /\ calls = [ops |-> 0, nextId |-> 1]
  /\ lastOp = NoOp("init")

\* config.processingQueueSize: not configured (0), or 2
ConfiguredQueueSizes == {0, 2}

\* The file hook as constructed with a queue of 2, or with the default
\* size after 99 calls of addFileToQueue
InitFiles ==
  /\ InitMemoryIdle
  /\ InitMonitoring
  /\ InitSystem
  /\ \E size \in ConfiguredQueueSizes :
       InitFileProcessing(size, IF size = 0 THEN DefaultQueueSize - 1 ELSE 0)

\* Variant: if (prev.queue.length > queueSize)
addFileUpdateAboveSize(prev, file, queueSize) ==
  IF Len(prev.queue) > queueSize
  THEN [prev EXCEPT !.queue = Append(Tail(prev.queue), file)]
  ELSE [prev EXCEPT !.queue = Append(prev.queue, file)]

\* The updater of addFileToQueue(file)
addFileUpdate(prev, file, queueSize) ==
  IF Len(prev.queue) >= queueSize
  THEN [prev EXCEPT !.queue = Append(Tail(prev.queue), file)]
  ELSE [prev EXCEPT !.queue = Append(prev.queue, file)]

\* prev.queue.map(f => f.id === id ? { ...f, status } : f)
withStatus(queue, id, status) ==
  [i \in 1..Len(queue) |->
     IF queue[i].id = id THEN [queue[i] EXCEPT !.status = status]
     ELSE queue[i]]

\* The updater of processNextFile after the processing of nextFile
processedUpdate(prev, nextFile) ==
  [prev EXCEPT
     !.queue = SelectSeq(prev.queue, LAMBDA f : f.id # nextFile.id),
     !.processed = Append(prev.processed,
                          [nextFile EXCEPT !.status = "completed"]),
     !.categoryCount = @ + 1]

AddFileToQueue ==
  /\ fileHook.calls < MaxFileCalls
  /\ \E wellFormed \in BOOLEAN :
       LET file == ProcessingFile(fileHook.nextId, wellFormed)
       IN /\ fileProcessing' =
               addFileUpdate(fileProcessing, file,
                             queueSizeOf(fileHook.processingQueueSize))
          /\ fileHook' = [fileHook EXCEPT
                            !.calls = @ + 1,
                            !.nextId = @ + 1,
                            !.last = [NoFileOp("add") EXCEPT !.file = file.id]]
  /\ UNCHANGED nonFileVars

\* Variant: without if (isProcessingRef.current) return null
ProcessNextFileUnguarded ==
  /\ fileHook.calls < MaxFileCalls
  /\ IF fileHook.queue = <<>>
     THEN /\ fileHook' = [fileHook EXCEPT
                            !.calls = @ + 1,
                            !.last = [NoFileOp("process") EXCEPT
                                        !.returned = "null"]]
          /\ UNCHANGED fileProcessing
     ELSE LET nextFile == fileHook.queue[1]
          IN /\ fileProcessing' =
                  [fileProcessing EXCEPT
                     !.queue = withStatus(@, nextFile.id, "processing")]
             /\ fileHook' = [fileHook EXCEPT
                               !.calls = @ + 1,
                               !.isProcessingRef = TRUE,
                               !.inFlight =
                                  @ \cup {[call |-> fileHook.calls + 1,
                                           file |-> nextFile]},
                               !.last = [NoFileOp("process") EXCEPT
                                           !.file = nextFile.id,
                                           !.returned = "pending"]]
  /\ UNCHANGED nonFileVars

\* processNextFile() up to its first await: the two early returns, or the
\* flag set and the status update enqueued
ProcessNextFile ==
  /\ fileHook.calls < MaxFileCalls
  /\ IF fileHook.isProcessingRef \/ fileHook.queue = <<>>
     THEN /\ fileHook' = [fileHook EXCEPT
                            !.calls = @ + 1,
                            !.last = [NoFileOp("process") EXCEPT
                                        !.returned = "null"]]
          /\ UNCHANGED fileProcessing
     ELSE LET nextFile == fileHook.queue[1]
          IN /\ fileProcessing' =
                  [fileProcessing EXCEPT
                     !.queue = withStatus(@, nextFile.id, "processing")]
             /\ fileHook' = [fileHook EXCEPT
                               !.calls = @ + 1,
                               !.isProcessingRef = TRUE,
                               !.inFlight =
                                  @ \cup {[call |-> fileHook.calls + 1,
                                           file |-> nextFile]},
                               !.last = [NoFileOp("process") EXCEPT
                                           !.file = nextFile.id,
                                           !.returned = "pending"]]
  /\ UNCHANGED nonFileVars

\* processNextFile() from its last await to its end: the processed file
\* recorded and returned, or the catch block; then the finally block
ProcessNextFileEnds ==
  /\ \E call \in fileHook.inFlight :
       /\ IF call.file.wellFormed
          THEN fileProcessing' = processedUpdate(fileProcessing, call.file)
          ELSE fileProcessing' =
                 [fileProcessing EXCEPT
                    !.queue = withStatus(@, call.file.id, "error")]
       /\ fileHook' = [fileHook EXCEPT
                         !.isProcessingRef = FALSE,
                         !.inFlight = @ \ {call},
                         !.last = [op |-> "processEnds",
                                   file |-> call.file.id,
                                   returned |-> IF call.file.wellFormed
                                                THEN "file" ELSE "null"]]
  /\ UNCHANGED nonFileVars

\* A render of the component: processNextFile is created again and reads
\* the queue of this render
RenderFileProcessing ==
  /\ fileHook.queue # fileProcessing.queue
  /\ fileHook' = [fileHook EXCEPT !.queue = fileProcessing.queue]
  /\ UNCHANGED <<fileProcessing, nonFileVars>>

NextFiles ==
  \/ AddFileToQueue
  \/ ProcessNextFile
  \/ ProcessNextFileEnds
  \/ RenderFileProcessing

SpecFiles == InitFiles /\ [][NextFiles]_vars

\* The step is a call of addFileToQueue
IsAddFile == fileHook'.calls = fileHook.calls + 1 /\ fileHook'.last.op = "add"

\* C34: the queue never holds more than processingQueueSize entries (100
\* if none is configured); addFileToQueue on a full queue removes the head,
\* whatever its status, and appends the file at the tail, and on another
\* queue it appends the file and removes nothing
QueueStaysWithinSize ==
  /\ [](Len(fileProcessing.queue)
          <= queueSizeOf(fileHook.processingQueueSize))
  /\ [][IsAddFile =>
         LET queue == fileProcessing.queue
             file == fileProcessing'.queue[Len(fileProcessing'.queue)]
         IN /\ file.id = fileHook'.last.file
            /\ file.id \notin {queue[i].id : i \in 1..Len(queue)}
            /\ IF Len(queue) = queueSizeOf(fileHook.processingQueueSize)
               THEN fileProcessing'.queue = Append(Tail(queue), file)
               ELSE fileProcessing'.queue = Append(queue, file)]_vars

\* addFileToQueue on a full queue has removed the file that a call of
\* processNextFile is processing
AddedToFullQueueWhileProcessing ==
  /\ fileHook.last.op = "add"
  /\ Len(fileProcessing.queue) = queueSizeOf(fileHook.processingQueueSize)
  /\ \E call \in fileHook.inFlight :
       \A i \in 1..Len(fileProcessing.queue) :
         fileProcessing.queue[i].id # call.file.id

\* The step is a call of processNextFile (up to its first await or return)
IsProcessCall ==
  fileHook'.calls = fileHook.calls + 1 /\ fileHook'.last.op = "process"

\* C35: processNextFile is mutually exclusive.  At most one call is
\* processing a file at a time; a call made while another is in flight
\* returns null and leaves queue and processed as they were; and the
\* in-flight flag is set exactly while a call is in flight: every call
\* that ends, by success or by error, clears it
ProcessNextFileIsExclusive ==
  /\ [](/\ Cardinality(fileHook.inFlight) <= 1
        /\ fileHook.isProcessingRef <=> fileHook.inFlight # {})
  /\ [][(IsProcessCall /\ fileHook.inFlight # {}) =>
         /\ fileHook'.last.returned = "null"
         /\ fileProcessing' = fileProcessing
         /\ fileHook'.inFlight = fileHook.inFlight]_vars
  /\ [][fileHook'.last.op = "processEnds" /\ fileHook.last # fileHook'.last
          => ~fileHook'.isProcessingRef]_vars

\* A call of processNextFile has returned null while another call, made
\* after an earlier one had ended, was processing a file
RefusedWhileProcessing ==
  /\ fileHook.last.op = "process"
  /\ fileHook.last.returned = "null"
  /\ fileHook.inFlight # {}
  /\ fileProcessing.processed # <<>>

\* The ids of the files of a queue or of processed
FileIds(files) == {files[i].id : i \in 1..Len(files)}

\* C36: under any interleaving of addFileToQueue and processNextFile, a
\* file is appended to processed at most once, only if it is still in the
\* queue when its processing completes, and it leaves the queue in the same
\* update; no file id is in both queue and processed or twice in processed
ProcessedOnceFromTheQueue ==
  /\ [](/\ FileIds(fileProcessing.queue)
             \cap FileIds(fileProcessing.processed) = {}
        /\ Cardinality(FileIds(fileProcessing.processed))
             = Len(fileProcessing.processed))
  /\ [][Len(fileProcessing'.processed) > Len(fileProcessing.processed) =>
         LET file == fileProcessing'.processed[Len(fileProcessing'.processed)]
         IN /\ file.id \in FileIds(fileProcessing.queue)
            /\ file.id \notin FileIds(fileProcessing'.queue)
            /\ file.id \notin FileIds(fileProcessing.processed)]_vars

----------------------------------------------------------------------------
(* usePerformanceMonitoring: startMonitoring, stopMonitoring and the       *)
(* cleanup on unmount.  Both callbacks test the isMonitoring of the render *)
(* that created them.                                                      *)

\* startMonitoring() of a render whose isMonitoring is this value
startMonitoringOf(m, isMonitoring) ==
  IF isMonitoring THEN m
  ELSE [m EXCEPT !.isMonitoring = TRUE,
                 !.created = @ + 1,
                 !.timers = setInterval(@, m.created + 1),
                 !.monitoringIntervalRef = m.created + 1]

\* stopMonitoring() of a render whose isMonitoring is this value
stopMonitoringOf(m, isMonitoring) ==
  IF ~isMonitoring THEN m
  ELSE [m EXCEPT !.isMonitoring = FALSE,
                 !.timers = IF m.monitoringIntervalRef # 0
                            THEN clearInterval(@, m.monitoringIntervalRef)
                            ELSE @,
                 !.monitoringIntervalRef = 0]

StartMonitoring ==
  /\ monitoring.mounted
  /\ monitoring.calls < MaxMonitorCalls
  /\ monitoring' = [startMonitoringOf(monitoring, monitoring.closure) EXCEPT
                      !.calls = @ + 1, !.last = "start"]
  /\ UNCHANGED <<memoryVars, fileVars, system>>

StopMonitoring ==
  /\ monitoring.mounted
  /\ monitoring.calls < MaxMonitorCalls
  /\ monitoring' = [stopMonitoringOf(monitoring, monitoring.closure) EXCEPT
                      !.calls = @ + 1, !.last = "stop"]
  /\ UNCHANGED <<memoryVars, fileVars, system>>

\* A render after setIsMonitoring: the two callbacks are created again
RenderMonitoring ==
  /\ monitoring.mounted
  /\ monitoring.closure # monitoring.isMonitoring
  /\ monitoring' = [monitoring EXCEPT !.closure = monitoring.isMonitoring]
  /\ UNCHANGED <<memoryVars, fileVars, system>>

\* The interval callback: collectMetrics()
CollectMetrics ==
  /\ monitoring.timers # {}
  /\ UNCHANGED vars

\* The cleanup of the unmount effect: clearInterval of the interval in
\* monitoringIntervalRef, if any
UnmountMonitoring ==
  /\ monitoring.mounted
  /\ monitoring' = [monitoring EXCEPT
                      !.mounted = FALSE,
                      !.timers = IF monitoring.monitoringIntervalRef # 0
                                 THEN clearInterval(@,
                                        monitoring.monitoringIntervalRef)
                                 ELSE @,
                      !.last = "unmount"]
  /\ UNCHANGED <<memoryVars, fileVars, system>>

InitMonitor ==
  /\ InitMemoryIdle
  /\ InitNonMemory

NextMonitor ==
  \/ StartMonitoring
  \/ StopMonitoring
  \/ RenderMonitoring
  \/ CollectMetrics
  \/ UnmountMonitoring

SpecMonitor == InitMonitor /\ [][NextMonitor]_vars

\* C37: at most one metrics-collection interval is active at any time.
\* startMonitoring while monitoring is started, also when it is called
\* twice before a render shows the state update, sets no second interval;
\* stopMonitoring leaves no interval active; after unmount none remains
AtMostOneMonitoringTimer ==
  /\ [](/\ Cardinality(monitoring.timers) <= 1
        /\ ~monitoring.mounted => monitoring.timers = {})
  /\ [][(monitoring'.calls = monitoring.calls + 1
           /\ monitoring'.last = "start" /\ monitoring.isMonitoring)
          => monitoring'.timers = monitoring.timers]_vars
  /\ [][(monitoring'.calls = monitoring.calls + 1
           /\ monitoring'.last = "stop")
          => monitoring'.timers = {}]_vars

----------------------------------------------------------------------------
(* IntegratedAISystem: the initialization effect, the controls and the     *)
(* view.  The service classes the effect constructs and resetSystem resets *)
(* may throw; startMonitoring is awaited but has no await of its own, so   *)
(* each handler runs to its end before anything else does.                 *)

\* What the component renders: the initializing view while isInitialized
\* is false, else the error view if systemStatus is 'error', else the
\* dashboard
View ==
  IF ~system.isInitialized THEN "initializing"
  ELSE IF system.systemStatus = "error" THEN "error"
  ELSE "dashboard"

\* Whether the services throw in a handler
ServiceOutcomes == {"ok", "throws"}

\* The initialization effect: at the mount, and again when config changes,
\* after the cleanup of its previous run (stopMonitoring of the render
\* that run belonged to); then initializeSystem()
RunInitializationEffect ==
  /\ monitoring.mounted
  /\ system.calls < MaxSystemCalls
  /\ \E outcome \in ServiceOutcomes :
       LET cleaned == IF system.calls = 0 THEN monitoring
                      ELSE stopMonitoringOf(monitoring, system.effectClosure)
       IN IF outcome = "ok"
          THEN /\ monitoring' = startMonitoringOf(cleaned, monitoring.closure)
               /\ system' = [system EXCEPT
                                !.isInitialized = TRUE,
                                !.systemStatus = "running",
                                !.errorState = "null",
                                !.effectClosure = monitoring.closure,
                                !.calls = @ + 1]
          ELSE /\ monitoring' = cleaned
               /\ system' = [system EXCEPT
                                !.systemStatus = "error",
                                !.errorState = "message",
                                !.effectClosure = monitoring.closure,
                                !.calls = @ + 1]
  /\ UNCHANGED <<memoryVars, fileVars>>

\* The Reset control, of the error view and of the dashboard
ResetSystem ==
  /\ monitoring.mounted
  /\ system.calls \in 1..(MaxSystemCalls - 1)
  /\ monitoring.closure = monitoring.isMonitoring
  /\ View \in {"error", "dashboard"}
  /\ \E outcome \in ServiceOutcomes :
       IF outcome = "ok"
       THEN /\ monitoring' = startMonitoringOf(monitoring, monitoring.closure)
            /\ system' = [system EXCEPT
                             !.systemStatus = "running",
                             !.errorState = "null",
                             !.calls = @ + 1]
       ELSE /\ monitoring' = monitoring
            /\ system' = [system EXCEPT
                             !.systemStatus = "error",
                             !.errorState = "message",
                             !.calls = @ + 1]
  /\ UNCHANGED <<memoryVars, fileVars>>

\* The Pause control of the dashboard
PauseSystem ==
  /\ monitoring.mounted
  /\ system.calls \in 1..(MaxSystemCalls - 1)
  /\ monitoring.closure = monitoring.isMonitoring
  /\ View = "dashboard"
  /\ system.systemStatus = "running"
  /\ monitoring' = stopMonitoringOf(monitoring, monitoring.closure)
  /\ system' = [system EXCEPT !.systemStatus = "paused", !.calls = @ + 1]
  /\ UNCHANGED <<memoryVars, fileVars>>

\* The Resume control of the dashboard
ResumeSystem ==
  /\ monitoring.mounted
  /\ system.calls \in 1..(MaxSystemCalls - 1)
  /\ monitoring.closure = monitoring.isMonitoring
  /\ View = "dashboard"
  /\ system.systemStatus = "paused"
  /\ monitoring' = startMonitoringOf(monitoring, monitoring.closure)
  /\ system' = [system EXCEPT !.systemStatus = "running", !.calls = @ + 1]
  /\ UNCHANGED <<memoryVars, fileVars>>

NextSystem ==
  \/ RunInitializationEffect
  \/ ResetSystem
  \/ PauseSystem
  \/ ResumeSystem
  \/ RenderMonitoring
  \/ CollectMetrics

SpecSystem == InitMonitor /\ [][NextSystem]_vars

\* C38: whenever systemStatus is 'error', after a failed initialization or
\* a failed reset, the component renders the error view, with the message
\* and the Reset control, and not the initializing view; and systemStatus
\* is 'running' only with isInitialized true
ErrorStatusShowsErrorView ==
  /\ system.systemStatus = "error" => View = "error"
  /\ system.systemStatus = "running" => system.isInitialized
=============================================================================
